---- MODULE Spec2Model ----
(***************************************************************************)
(* Reminder lifecycle and notification engine of the bookkeeping backend.  *)
(*                                                                         *)
(*   ReminderService      (reminder.service.ts)     CRUD and toggle         *)
(*   NotificationService  (notification.service.ts) threshold check, sweeps *)
(*   AlertService         (alert.service.ts)        create, read, delete    *)
(*   TransactionService   (transaction.service.ts)  create, update, delete  *)
(*   CategoryService      (category.service.ts)     create, delete          *)
(*   startServer          (server.ts)               scheduler, shutdown     *)
(*                                                                         *)
(* The tables of the database are the state.  An async method runs on the  *)
(* event loop: it runs up to its next await and yields there, and other    *)
(* callbacks run before it resumes.  Each action is one such run: it       *)
(* starts where a Prisma call settles and ends at the next await or at the *)
(* method's return or throw, try/catch included.  A method with a single   *)
(* Prisma call is one action.  The calls that have yielded are in `calls`  *)
(* and `passes`.                                                           *)
(*                                                                         *)
(* A request payload is a record whose DOMAIN is the set of keys present   *)
(* in the JSON body ("x" \notin DOMAIN data  <=>  data.x === undefined).   *)
(***************************************************************************)
EXTENDS Integers, Sequences, FiniteSets, TLC

VARIABLES
    reminders,          \* table "reminders": id -> row, DOMAIN = ids stored
    nextReminderId,     \* ids are fresh and never reused
    alerts,             \* table "alerts", in insertion order
    nextAlertId,
    transactions,       \* table "transactions": id -> row
    nextTransactionId,
    categories,         \* table "categories": id -> row
    nextCategoryId,
    now,                \* the wall clock read by new Date() and by the store
    scheduler,          \* "off", "connected" ($connect resolved), "listening"
                        \* (listen called), "running" (its callback ran)
    passes,             \* the checkAllReminders calls in flight
    shutdown,           \* "none", "signalled", "disconnecting", "exited"
    calls,              \* the other service calls in flight, at an await
    lastCall            \* the last call that settled: arguments and outcome

reminderTable == <<reminders, nextReminderId>>
alertTable == <<alerts, nextAlertId>>
transactionTable == <<transactions, nextTransactionId>>
categoryTable == <<categories, nextCategoryId>>
server == <<scheduler, shutdown>>

vars == <<reminderTable, alertTable, transactionTable, categoryTable, now, server,
          passes, calls, lastCall>>

----------------------------------------------------------------------------
(* Bounds                                                                  *)

MaxReminders == 1       \* reminders ever created
MaxAlerts == 2          \* alerts ever created
MaxAmount == 3          \* amounts and thresholds are 1..MaxAmount
MaxTransactions == 1    \* transactions ever created
MaxCategories == 3      \* categories ever created, the two seeded included
DayLen == 2             \* clock instants per calendar day
MaxTime == 5            \* the clock and the due dates are 0..MaxTime
MaxWatchers == 2        \* reminders fetched by one pass, where passes fan out
MaxPasses == 2          \* checkAllReminders calls in flight at once
MaxCalls == 2           \* other service calls in flight at once
Serial == 1             \* calls in flight at once where overlap is not the subject

----------------------------------------------------------------------------
(* Values                                                                  *)

NULL == "null"
UNDEFINED == "undefined"

Users == {"u1", "u2"}

\* The ids the store hands out for categories, in the order it hands them out.
CategoryIdOf == <<"c1", "c2", "c3", "c4", "c5">>

\* The categories present when the services start: one per type.
SeededCategories ==
    [c \in {"c1", "c2"} |->
        IF c = "c1" THEN [name |-> "Utilities", type |-> "EXPENSE", userId |-> "u1"]
                    ELSE [name |-> "Sales", type |-> "INCOME", userId |-> "u1"]]

Titles == {"Pay utility"}

\* A Prisma Decimal column is read back as a Decimal object or null: the
\* object is <<n>>, null is <<>>.
NoDecimal == <<>>
Decimal(n) == <<n>>
Number(d) == d[1]

EmptyRec == [x \in {} |-> x]

Has(data, key) == key \in DOMAIN data

\* JavaScript truthiness of a string-or-undefined value.
Falsy(v) == v \in {UNDEFINED, NULL, ""}

Range(seq) == {seq[i] : i \in DOMAIN seq}

Remove(seq, i) == SubSeq(seq, 1, i - 1) \o SubSeq(seq, i + 1, Len(seq))

\* findMany has no orderBy: the rows come back in any order.
Orders(ids) ==
    {o \in [1..Cardinality(ids) -> ids] : \A i, j \in DOMAIN o : i # j => o[i] # o[j]}

----------------------------------------------------------------------------
(* Errors (utils/errors.ts)                                                *)

NoError == [name |-> "none", statusCode |-> 200, message |-> <<>>]
BadRequestError(msg) == [name |-> "BadRequestError", statusCode |-> 400, message |-> msg]
NotFoundError(msg) == [name |-> "NotFoundError", statusCode |-> 404, message |-> msg]
ValidationError(msg) == [name |-> "ValidationError", statusCode |-> 400, message |-> msg]
DatabaseError(msg) == [name |-> "DatabaseError", statusCode |-> 500, message |-> msg]
\* Whatever the Prisma client throws (connection lost, constraint violated,
\* record to update not found).
PrismaError(msg) == [name |-> "PrismaClientError", statusCode |-> 500, message |-> msg]

----------------------------------------------------------------------------
(* ReminderService                                                         *)

validReminderTypes == <<"GENERAL", "TRANSACTION", "THRESHOLD">>

\* Alternative reading, kept for comparison: the validation lets every value
\* through.
IncludesAnything(seq, v) == TRUE

Includes(seq, v) == \E i \in 1..Len(seq) : seq[i] = v

InvalidTypeMessage(reminderType) ==
    <<"Invalid reminderType: ", reminderType, ". Valid values are: ",
      "GENERAL, TRANSACTION, THRESHOLD">>

\* Alternative reading, kept for comparison: the legacy tag is not mapped.
MapLegacyNone(reminderType) == reminderType

\* Map legacy values for backward compatibility.
MapLegacy(reminderType) ==
    IF reminderType = "BUDGET_ALERT" THEN "THRESHOLD" ELSE reminderType

\* Alternative reading, kept for comparison: no default for an omitted reminderType.
CreateReminderTypeNoDefault(data) ==
    MapLegacy(IF Has(data, "reminderType") THEN data.reminderType ELSE UNDEFINED)

\* let reminderType = (data.reminderType as string) || 'GENERAL', then the
\* legacy mapping.
CreateReminderType(data) ==
    LET raw == IF Has(data, "reminderType") THEN data.reminderType ELSE UNDEFINED
    IN  MapLegacy(IF Falsy(raw) THEN "GENERAL" ELSE raw)

\* prisma.reminder.create: the row written, with the column defaults.
NewReminder(userId, data, reminderType) ==
    [ userId            |-> userId,
      title             |-> data.title,
      description       |-> IF Has(data, "description") THEN data.description ELSE NULL,
      dueDate           |-> data.dueDate,
      completed         |-> FALSE,
      reminderType      |-> reminderType,
      categoryId        |-> IF Has(data, "categoryId") THEN data.categoryId ELSE NULL,
      thresholdAmount   |-> IF Has(data, "thresholdAmount")
                            THEN Decimal(data.thresholdAmount) ELSE NoDecimal,
      transactionType   |-> IF Has(data, "transactionType")
                            THEN data.transactionType ELSE NULL,
      transactionAmount |-> IF Has(data, "transactionAmount")
                            THEN Decimal(data.transactionAmount) ELSE NoDecimal ]

\* reminders_categoryId_fkey: a non-null categoryId references a category.
ForeignKeyOk(categoryId) == categoryId = NULL \/ categoryId \in DOMAIN categories

\* The key reminderType of a payload, as the service reads it.
RawType(data) == IF Has(data, "reminderType") THEN data.reminderType ELSE UNDEFINED

\* The try block of createReminder: the error it throws (NoError when it
\* returns).  The validation runs before the method's only await.
CreateReminderTry(userId, data, dbOk) ==
    LET reminderType == CreateReminderType(data)
        row == NewReminder(userId, data, reminderType)
    IN  IF ~Includes(validReminderTypes, reminderType)
        THEN BadRequestError(InvalidTypeMessage(reminderType))
        ELSE IF ~dbOk
        THEN PrismaError(<<"connection">>)
        ELSE IF ~ForeignKeyOk(row.categoryId)
        THEN PrismaError(<<"foreign key">>)
        ELSE NoError

\* The catch block of createReminder: every error becomes a DatabaseError.
CreateReminderCatch(error) ==
    IF error = NoError THEN NoError
    ELSE DatabaseError(<<"Failed to create reminder">>)

\* createReminder: prisma.reminder.create settles and the method returns or
\* throws.
CreateReminder(userId, data, dbOk) ==
    LET error == CreateReminderTry(userId, data, dbOk)
        id == nextReminderId
    IN  /\ reminders' = IF error = NoError
                        THEN reminders @@ (id :> NewReminder(userId, data, CreateReminderType(data)))
                        ELSE reminders
        /\ nextReminderId' = IF error = NoError THEN id + 1 ELSE nextReminderId
        /\ lastCall' = [ op      |-> "createReminder",
                         step    |-> "create",
                         userId  |-> userId,
                         dbOk    |-> dbOk,
                         id      |-> IF error = NoError THEN id ELSE 0,
                         data    |-> data,
                         rawType |-> RawType(data),
                         error   |-> CreateReminderCatch(error) ]
        /\ UNCHANGED <<alertTable, transactionTable, categoryTable, now, server,
                       passes, calls>>

\* Alternative reading, kept for comparison: a completed key flips the flag.
ApplyUpdateFlipping(row, data) ==
    [row EXCEPT !.completed = IF Has(data, "completed") THEN ~@ ELSE @]

\* const updateData = {}; one assignment per key present in the payload.
\* Returns the row after prisma.reminder.update({ data: updateData }).
ApplyUpdate(row, data) ==
    [ userId            |-> row.userId,
      title             |-> IF Has(data, "title") THEN data.title ELSE row.title,
      description       |-> IF Has(data, "description")
                            THEN data.description ELSE row.description,
      dueDate           |-> IF Has(data, "dueDate") THEN data.dueDate ELSE row.dueDate,
      completed         |-> IF Has(data, "completed") THEN data.completed ELSE row.completed,
      reminderType      |-> IF Has(data, "reminderType")
                            THEN MapLegacy(data.reminderType) ELSE row.reminderType,
      categoryId        |-> IF Has(data, "categoryId")
                            THEN data.categoryId ELSE row.categoryId,
      thresholdAmount   |-> IF Has(data, "thresholdAmount")
                            THEN Decimal(data.thresholdAmount) ELSE row.thresholdAmount,
      transactionType   |-> IF Has(data, "transactionType")
                            THEN data.transactionType ELSE row.transactionType,
      transactionAmount |-> IF Has(data, "transactionAmount")
                            THEN Decimal(data.transactionAmount)
                            ELSE row.transactionAmount ]

\* Reminder id is stored and belongs to userId.
Owns(userId, id) == id \in DOMAIN reminders /\ reminders[id].userId = userId

\* Alternative reading, kept for comparison: the lookup is by id alone.
FindAnyOwner(reminderId, userId) == reminderId \in DOMAIN reminders

\* prisma.reminder.findFirst({ where: { id: reminderId, userId } }) found a row.
FindOwned(reminderId, userId) ==
    reminderId \in DOMAIN reminders /\ reminders[reminderId].userId = userId

\* updateReminder from its call to its second await: what it throws before
\* it calls prisma.reminder.update (NoError: it builds updateData and calls).
UpdateReminderTry(reminderId, userId, data, dbOk) ==
    IF ~dbOk
    THEN PrismaError(<<"connection">>)
    ELSE IF ~FindOwned(reminderId, userId)
    THEN NotFoundError(<<"Reminder not found">>)
    ELSE IF Has(data, "reminderType")
            /\ ~Includes(validReminderTypes, MapLegacy(data.reminderType))
    THEN BadRequestError(InvalidTypeMessage(MapLegacy(data.reminderType)))
    ELSE NoError

\* prisma.reminder.update({ where: { id: reminderId }, data: updateData }):
\* what it throws.  The where clause has the id alone; a row that is gone by
\* now makes the update throw.
UpdateReminderWrite(call, dbOk) ==
    IF ~dbOk
    THEN PrismaError(<<"connection">>)
    ELSE IF call.id \notin DOMAIN reminders
    THEN PrismaError(<<"record not found">>)
    ELSE IF ~ForeignKeyOk(ApplyUpdate(reminders[call.id], call.data).categoryId)
    THEN PrismaError(<<"foreign key">>)
    ELSE NoError

\* The catch block of updateReminder: NotFoundError is rethrown, every other
\* error becomes a DatabaseError.
UpdateReminderCatch(error) ==
    IF error = NoError THEN NoError
    ELSE IF error.name = "NotFoundError" THEN error
    ELSE DatabaseError(<<"Failed to update reminder">>)

\* What updateReminder leaves in lastCall when it settles at `step`.
\* found: the row was there when the step ran (for the caller at findFirst,
\* by its id at update); wasCompleted: it was completed then.
UpdateReminderSettled(step, reminderId, userId, data, dbOk, error) ==
    [ op           |-> "updateReminder",
      step         |-> step,
      userId       |-> userId,
      dbOk         |-> dbOk,
      id           |-> reminderId,
      data         |-> data,
      rawType      |-> RawType(data),
      found        |-> IF step = "findFirst" THEN Owns(userId, reminderId)
                       ELSE reminderId \in DOMAIN reminders,
      wasCompleted |-> /\ reminderId \in DOMAIN reminders
                       /\ reminders[reminderId].completed,
      error        |-> UpdateReminderCatch(error) ]

\* Alternative reading, kept for comparison: the fields that need no
\* validation are written before reminderType is validated.
UpdateReminderFindFirstEager(reminderId, userId, data, dbOk) ==
    LET error == UpdateReminderTry(reminderId, userId, data, dbOk)
        plain == [k \in DOMAIN data \ {"reminderType"} |-> data[k]]
    IN  /\ reminders' = IF dbOk /\ FindOwned(reminderId, userId)
                        THEN [reminders EXCEPT ![reminderId] = ApplyUpdate(@, plain)]
                        ELSE reminders
        /\ calls' = IF error = NoError
                    THEN Append(calls, [ op     |-> "updateReminder",
                                         id     |-> reminderId,
                                         userId |-> userId,
                                         data   |-> data ])
                    ELSE calls
        /\ lastCall' = IF error = NoError THEN lastCall
                       ELSE UpdateReminderSettled("findFirst", reminderId, userId, data,
                                                  dbOk, error)
        /\ UNCHANGED <<nextReminderId, alertTable, transactionTable, categoryTable, now,
                       server, passes>>

\* updateReminder, first run: findFirst settles; the method throws, or builds
\* updateData, calls prisma.reminder.update and yields.
UpdateReminderFindFirst(reminderId, userId, data, dbOk) ==
    LET error == UpdateReminderTry(reminderId, userId, data, dbOk)
    IN  /\ calls' = IF error = NoError
                    THEN Append(calls, [ op     |-> "updateReminder",
                                         id     |-> reminderId,
                                         userId |-> userId,
                                         data   |-> data ])
                    ELSE calls
        /\ lastCall' = IF error = NoError THEN lastCall
                       ELSE UpdateReminderSettled("findFirst", reminderId, userId, data,
                                                  dbOk, error)
        /\ UNCHANGED <<reminderTable, alertTable, transactionTable, categoryTable, now,
                       server, passes>>

\* updateReminder, second run: the update settles and the method returns or
\* throws.
UpdateReminderUpdate(i, dbOk) ==
    LET call == calls[i]
        error == UpdateReminderWrite(call, dbOk)
    IN  /\ call.op = "updateReminder"
        /\ reminders' = IF error = NoError
                        THEN [reminders EXCEPT ![call.id] = ApplyUpdate(@, call.data)]
                        ELSE reminders
        /\ calls' = Remove(calls, i)
        /\ lastCall' = UpdateReminderSettled("update", call.id, call.userId, call.data,
                                             dbOk, error)
        /\ UNCHANGED <<nextReminderId, alertTable, transactionTable, categoryTable, now,
                       server, passes>>

\* toggleReminder from its call to its second await.
ToggleReminderTry(reminderId, userId, dbOk) ==
    IF ~dbOk
    THEN PrismaError(<<"connection">>)
    ELSE IF ~FindOwned(reminderId, userId)
    THEN NotFoundError(<<"Reminder not found">>)
    ELSE NoError

\* prisma.reminder.update({ where: { id: reminderId },
\*                          data: { completed: !reminder.completed } })
ToggleReminderWrite(call, dbOk) ==
    IF ~dbOk
    THEN PrismaError(<<"connection">>)
    ELSE IF call.id \notin DOMAIN reminders
    THEN PrismaError(<<"record not found">>)
    ELSE NoError

ToggleReminderCatch(error) ==
    IF error = NoError THEN NoError
    ELSE IF error.name = "NotFoundError" THEN error
    ELSE DatabaseError(<<"Failed to toggle reminder">>)

ToggleReminderSettled(step, reminderId, userId, dbOk, error) ==
    [ op     |-> "toggleReminder",
      step   |-> step,
      userId |-> userId,
      dbOk   |-> dbOk,
      id     |-> reminderId,
      found  |-> IF step = "findFirst" THEN Owns(userId, reminderId)
                 ELSE reminderId \in DOMAIN reminders,
      error  |-> ToggleReminderCatch(error) ]

\* toggleReminder, first run: findFirst settles; the method throws, or calls
\* prisma.reminder.update with the negation of the completed it has read.
ToggleReminderFindFirst(reminderId, userId, dbOk) ==
    LET error == ToggleReminderTry(reminderId, userId, dbOk)
    IN  /\ calls' = IF error = NoError
                    THEN Append(calls, [ op        |-> "toggleReminder",
                                         id        |-> reminderId,
                                         userId    |-> userId,
                                         completed |-> reminders[reminderId].completed ])
                    ELSE calls
        /\ lastCall' = IF error = NoError THEN lastCall
                       ELSE ToggleReminderSettled("findFirst", reminderId, userId, dbOk, error)
        /\ UNCHANGED <<reminderTable, alertTable, transactionTable, categoryTable, now,
                       server, passes>>

\* toggleReminder, second run: the update settles.
ToggleReminderUpdate(i, dbOk) ==
    LET call == calls[i]
        error == ToggleReminderWrite(call, dbOk)
    IN  /\ call.op = "toggleReminder"
        /\ reminders' = IF error = NoError
                        THEN [reminders EXCEPT ![call.id].completed = ~call.completed]
                        ELSE reminders
        /\ calls' = Remove(calls, i)
        /\ lastCall' = ToggleReminderSettled("update", call.id, call.userId, dbOk, error)
        /\ UNCHANGED <<nextReminderId, alertTable, transactionTable, categoryTable, now,
                       server, passes>>

\* The try block of getReminderById.
GetReminderByIdTry(reminderId, userId, dbOk) ==
    IF ~dbOk
    THEN PrismaError(<<"connection">>)
    ELSE IF ~FindOwned(reminderId, userId)
    THEN NotFoundError(<<"Reminder not found">>)
    ELSE NoError

GetReminderByIdCatch(error) ==
    IF error = NoError THEN NoError
    ELSE IF error.name = "NotFoundError" THEN error
    ELSE DatabaseError(<<"Failed to fetch reminder">>)

\* getReminderById: its only await settles.
GetReminderById(reminderId, userId, dbOk) ==
    /\ lastCall' = [ op     |-> "getReminderById",
                     step   |-> "findFirst",
                     userId |-> userId,
                     dbOk   |-> dbOk,
                     id     |-> reminderId,
                     found  |-> Owns(userId, reminderId),
                     error  |-> GetReminderByIdCatch(
                                    GetReminderByIdTry(reminderId, userId, dbOk)) ]
    /\ UNCHANGED <<reminderTable, alertTable, transactionTable, categoryTable, now,
                   server, passes, calls>>

\* deleteReminder from its call to its second await.
DeleteReminderTry(reminderId, userId, dbOk) ==
    IF ~dbOk
    THEN PrismaError(<<"connection">>)
    ELSE IF ~FindOwned(reminderId, userId)
    THEN NotFoundError(<<"Reminder not found">>)
    ELSE NoError

\* prisma.reminder.delete({ where: { id: reminderId } })
DeleteReminderWrite(call, dbOk) ==
    IF ~dbOk
    THEN PrismaError(<<"connection">>)
    ELSE IF call.id \notin DOMAIN reminders
    THEN PrismaError(<<"record not found">>)
    ELSE NoError

DeleteReminderCatch(error) ==
    IF error = NoError THEN NoError
    ELSE IF error.name = "NotFoundError" THEN error
    ELSE DatabaseError(<<"Failed to delete reminder">>)

DeleteReminderSettled(step, reminderId, userId, dbOk, error) ==
    [ op     |-> "deleteReminder",
      step   |-> step,
      userId |-> userId,
      dbOk   |-> dbOk,
      id     |-> reminderId,
      found  |-> IF step = "findFirst" THEN Owns(userId, reminderId)
                 ELSE reminderId \in DOMAIN reminders,
      error  |-> DeleteReminderCatch(error) ]

\* deleteReminder, first run: findFirst settles.
DeleteReminderFindFirst(reminderId, userId, dbOk) ==
    LET error == DeleteReminderTry(reminderId, userId, dbOk)
    IN  /\ calls' = IF error = NoError
                    THEN Append(calls, [ op     |-> "deleteReminder",
                                         id     |-> reminderId,
                                         userId |-> userId ])
                    ELSE calls
        /\ lastCall' = IF error = NoError THEN lastCall
                       ELSE DeleteReminderSettled("findFirst", reminderId, userId, dbOk, error)
        /\ UNCHANGED <<reminderTable, alertTable, transactionTable, categoryTable, now,
                       server, passes>>

\* deleteReminder, second run: the delete settles.
DeleteReminderDelete(i, dbOk) ==
    LET call == calls[i]
        error == DeleteReminderWrite(call, dbOk)
    IN  /\ call.op = "deleteReminder"
        /\ reminders' = IF error = NoError
                        THEN [id \in DOMAIN reminders \ {call.id} |-> reminders[id]]
                        ELSE reminders
        /\ calls' = Remove(calls, i)
        /\ lastCall' = DeleteReminderSettled("delete", call.id, call.userId, dbOk, error)
        /\ UNCHANGED <<nextReminderId, alertTable, transactionTable, categoryTable, now,
                       server, passes>>

----------------------------------------------------------------------------
(* AlertService                                                            *)

\* Alternative reading, kept for comparison: the row is created read.
AlertRowRead(id, userId, type, message, reminderId) ==
    [ id         |-> id,
      userId     |-> userId,
      type       |-> type,
      message    |-> message,
      isRead     |-> TRUE,
      createdAt  |-> now,
      reminderId |-> reminderId ]

\* prisma.alert.create({ data: { type, message, userId } }): the row, with
\* the column defaults.  reminderId is not a column: it is the reminderId of
\* the "... reminder triggered" log entry written right after the alert
\* (0: the alert was not created for a reminder).
AlertRow(id, userId, type, message, reminderId) ==
    [ id         |-> id,
      userId     |-> userId,
      type       |-> type,
      message    |-> message,
      isRead     |-> FALSE,
      createdAt  |-> now,
      reminderId |-> reminderId ]

\* The try block of createAlert.
CreateAlertTry(dbOk) ==
    IF dbOk THEN NoError ELSE PrismaError(<<"connection">>)

\* The catch block of createAlert.
CreateAlertCatch(error) ==
    IF error = NoError THEN NoError
    ELSE DatabaseError(<<"Failed to create alert">>)

\* createAlert called by the alert controller (POST /api/alerts): its only
\* await settles.
CreateAlert(userId, data, dbOk) ==
    LET error == CreateAlertTry(dbOk)
    IN  /\ alerts' = IF error = NoError
                     THEN Append(alerts, AlertRow(nextAlertId, userId, data.type,
                                                  data.message, 0))
                     ELSE alerts
        /\ nextAlertId' = IF error = NoError THEN nextAlertId + 1 ELSE nextAlertId
        /\ lastCall' = [ op     |-> "createAlert",
                         step   |-> "create",
                         userId |-> userId,
                         dbOk   |-> dbOk,
                         id     |-> IF error = NoError THEN nextAlertId ELSE 0,
                         error  |-> CreateAlertCatch(error) ]
        /\ UNCHANGED <<reminderTable, transactionTable, categoryTable, now, server,
                       passes, calls>>

\* The positions of the alerts table that hold the row with this id.
AlertAt(alertId) == {k \in DOMAIN alerts : alerts[k].id = alertId}

\* prisma.alert.findFirst({ where: { id: alertId, userId } }) found a row.
FindOwnedAlert(alertId, userId) ==
    \E k \in AlertAt(alertId) : alerts[k].userId = userId

\* markAsRead and deleteAlert from the call to the second await.
AlertFindFirstTry(alertId, userId, dbOk) ==
    IF ~dbOk
    THEN PrismaError(<<"connection">>)
    ELSE IF ~FindOwnedAlert(alertId, userId)
    THEN NotFoundError(<<"Alert not found">>)
    ELSE NoError

\* prisma.alert.update / prisma.alert.delete ({ where: { id: alertId } })
AlertWrite(call, dbOk) ==
    IF ~dbOk
    THEN PrismaError(<<"connection">>)
    ELSE IF AlertAt(call.id) = {}
    THEN PrismaError(<<"record not found">>)
    ELSE NoError

MarkAsReadCatch(error) ==
    IF error = NoError THEN NoError
    ELSE IF error.name = "NotFoundError" THEN error
    ELSE DatabaseError(<<"Failed to update alert">>)

AlertSettled(op, step, alertId, userId, dbOk, error) ==
    [ op     |-> op,
      step   |-> step,
      userId |-> userId,
      dbOk   |-> dbOk,
      id     |-> alertId,
      error  |-> error ]

\* markAsRead, first run: findFirst settles.
MarkAsReadFindFirst(alertId, userId, dbOk) ==
    LET error == AlertFindFirstTry(alertId, userId, dbOk)
    IN  /\ calls' = IF error = NoError
                    THEN Append(calls, [op |-> "markAsRead", id |-> alertId,
                                        userId |-> userId])
                    ELSE calls
        /\ lastCall' = IF error = NoError THEN lastCall
                       ELSE AlertSettled("markAsRead", "findFirst", alertId, userId, dbOk,
                                         MarkAsReadCatch(error))
        /\ UNCHANGED <<reminderTable, alertTable, transactionTable, categoryTable, now,
                       server, passes>>

\* markAsRead, second run: the update settles.
MarkAsReadUpdate(i, dbOk) ==
    LET call == calls[i]
        error == AlertWrite(call, dbOk)
    IN  /\ call.op = "markAsRead"
        /\ alerts' = IF error = NoError
                     THEN [k \in DOMAIN alerts |->
                              IF alerts[k].id = call.id
                              THEN [alerts[k] EXCEPT !.isRead = TRUE]
                              ELSE alerts[k]]
                     ELSE alerts
        /\ calls' = Remove(calls, i)
        /\ lastCall' = AlertSettled("markAsRead", "update", call.id, call.userId, dbOk,
                                    MarkAsReadCatch(error))
        /\ UNCHANGED <<nextAlertId, reminderTable, transactionTable, categoryTable, now,
                       server, passes>>

DeleteAlertCatch(error) ==
    IF error = NoError THEN NoError
    ELSE IF error.name = "NotFoundError" THEN error
    ELSE DatabaseError(<<"Failed to delete alert">>)

\* deleteAlert, first run: findFirst settles.
DeleteAlertFindFirst(alertId, userId, dbOk) ==
    LET error == AlertFindFirstTry(alertId, userId, dbOk)
    IN  /\ calls' = IF error = NoError
                    THEN Append(calls, [op |-> "deleteAlert", id |-> alertId,
                                        userId |-> userId])
                    ELSE calls
        /\ lastCall' = IF error = NoError THEN lastCall
                       ELSE AlertSettled("deleteAlert", "findFirst", alertId, userId, dbOk,
                                         DeleteAlertCatch(error))
        /\ UNCHANGED <<reminderTable, alertTable, transactionTable, categoryTable, now,
                       server, passes>>

\* deleteAlert, second run: the delete settles.
DeleteAlertDelete(i, dbOk) ==
    LET call == calls[i]
        error == AlertWrite(call, dbOk)
    IN  /\ call.op = "deleteAlert"
        /\ alerts' = IF error = NoError
                     THEN SelectSeq(alerts, LAMBDA a : a.id # call.id)
                     ELSE alerts
        /\ calls' = Remove(calls, i)
        /\ lastCall' = AlertSettled("deleteAlert", "delete", call.id, call.userId, dbOk,
                                    DeleteAlertCatch(error))
        /\ UNCHANGED <<nextAlertId, reminderTable, transactionTable, categoryTable, now,
                       server, passes>>

----------------------------------------------------------------------------
(* NotificationService.checkThresholdReminders                             *)

\* include: { category: true }, then reminder.category?.name
CategoryName(categoryId) ==
    IF categoryId \in DOMAIN categories THEN categories[categoryId].name ELSE NULL

\* Alternative reading, kept for comparison: the query leaves out the userId filter.
ThresholdWhereAnyUser(r, userId, categoryId) ==
    /\ r.reminderType = "THRESHOLD"
    /\ r.completed = FALSE
    /\ r.categoryId = categoryId
    /\ r.thresholdAmount # NoDecimal

\* Alternative reading, kept for comparison: the query leaves out the categoryId filter.
ThresholdWhereAnyCategory(r, userId, categoryId) ==
    /\ r.userId = userId
    /\ r.reminderType = "THRESHOLD"
    /\ r.completed = FALSE
    /\ r.thresholdAmount # NoDecimal

\* where: { userId, reminderType: 'THRESHOLD', completed: false,
\*          categoryId: categoryId, thresholdAmount: { not: null } }
ThresholdWhere(r, userId, categoryId) ==
    /\ r.userId = userId
    /\ r.reminderType = "THRESHOLD"
    /\ r.completed = FALSE
    /\ r.categoryId = categoryId
    /\ r.thresholdAmount # NoDecimal

ThresholdMatches(userId, categoryId) ==
    {id \in DOMAIN reminders : ThresholdWhere(reminders[id], userId, categoryId)}

\* What findMany resolves to: the rows as they are stored at this moment, in
\* the order the store returns them, each with its category included.
Fetched(order) ==
    [k \in 1..Len(order) |->
        [ id           |-> order[k],
          row          |-> reminders[order[k]],
          categoryName |-> CategoryName(reminders[order[k]].categoryId) ]]

\* Alternative reading, kept for comparison: the boundary is exclusive.
ThresholdTriggersStrict(r, amount) ==
    r.thresholdAmount # NoDecimal /\ amount > Number(r.thresholdAmount)

\* if (reminder.thresholdAmount && amount >= Number(reminder.thresholdAmount))
\* A Decimal object is truthy whatever its value.
ThresholdTriggers(r, amount) ==
    r.thresholdAmount # NoDecimal /\ amount >= Number(r.thresholdAmount)

ThresholdMessage(f, amount) ==
    LET categoryName == IF Falsy(f.categoryName) THEN "this category" ELSE f.categoryName
    IN  << "Threshold reminder: ", f.row.title, ". Expense of $", ToString(amount),
           " in ", categoryName, " has exceeded the threshold of $",
           ToString(Number(f.row.thresholdAmount)) >>

\* for (const reminder of reminders) { if (...) await createAlert(...) }
\* The loop runs on without yielding over the rows whose test is false.
\* rows: the fetched rows not visited yet.  The value is the rows left when
\* the loop reaches its next await: the first is the row createAlert is
\* called for; empty when the loop ends.
RECURSIVE ThresholdLoop(_, _)
ThresholdLoop(rows, amount) ==
    IF rows = <<>> THEN <<>>
    ELSE IF ThresholdTriggers(Head(rows).row, amount) THEN rows
    ELSE ThresholdLoop(Tail(rows), amount)

\* The catch block of checkThresholdReminders: logError, and nothing is
\* thrown again.
CheckThresholdCatch(error) == NoError

\* What checkThresholdReminders leaves in lastCall when it settles.
\* fault: where the try block threw ("none", "find", "alert"); seen: the
\* reminders table as findMany saw it; triggered: the ids alerted, in order;
\* written: the ids of the alerts created.
CheckThresholdSettled(call, fault, error) ==
    [ op         |-> "checkThresholdReminders",
      userId     |-> call.userId,
      categoryId |-> call.categoryId,
      amount     |-> call.amount,
      fault      |-> fault,
      seen       |-> call.seen,
      fetched    |-> call.fetched,
      triggered  |-> call.triggered,
      written    |-> call.written,
      error      |-> CheckThresholdCatch(error) ]

\* checkThresholdReminders, first run: findMany settles; the loop runs to
\* its first createAlert, or to its end.
CheckThresholdFindMany(userId, categoryId, amount, order, dbOk) ==
    LET rows == IF dbOk THEN ThresholdLoop(Fetched(order), amount) ELSE <<>>
        call == [ op         |-> "checkThresholdReminders",
                  userId     |-> userId,
                  categoryId |-> categoryId,
                  amount     |-> amount,
                  seen       |-> IF dbOk THEN reminders ELSE EmptyRec,
                  fetched    |-> IF dbOk THEN order ELSE <<>>,
                  rows       |-> rows,
                  triggered  |-> <<>>,
                  written    |-> <<>> ]
    IN  /\ calls' = IF rows # <<>> THEN Append(calls, call) ELSE calls
        /\ lastCall' = IF rows # <<>> THEN lastCall
                       ELSE CheckThresholdSettled(
                                call, IF dbOk THEN "none" ELSE "find",
                                IF dbOk THEN NoError ELSE PrismaError(<<"connection">>))
        /\ UNCHANGED <<reminderTable, alertTable, transactionTable, categoryTable, now,
                       server, passes>>

\* Alternative reading, kept for comparison: the loop stops after its first alert.
CheckThresholdAdvanceStopping(call) ==
    [call EXCEPT !.rows = <<>>,
                 !.triggered = Append(call.triggered, Head(call.rows).id),
                 !.written = Append(call.written, nextAlertId)]

\* The call after createAlert for the row at hand has resolved: the loop
\* goes on with the rows after it.
CheckThresholdAdvance(call) ==
    [call EXCEPT !.rows = ThresholdLoop(Tail(call.rows), call.amount),
                 !.triggered = Append(call.triggered, Head(call.rows).id),
                 !.written = Append(call.written, nextAlertId)]

\* Alternative reading, kept for comparison: a reminder that triggers is
\* marked completed.
CheckThresholdCreateAlertCompleting(i, dbOk) ==
    LET call == calls[i]
        f == Head(call.rows)
        error == CreateAlertCatch(CreateAlertTry(dbOk))
        after == CheckThresholdAdvance(call)
    IN  /\ call.op = "checkThresholdReminders"
        /\ alerts' = IF error = NoError
                     THEN Append(alerts, AlertRow(nextAlertId, call.userId, "WARNING",
                                                  ThresholdMessage(f, call.amount), f.id))
                     ELSE alerts
        /\ nextAlertId' = IF error = NoError THEN nextAlertId + 1 ELSE nextAlertId
        /\ reminders' = IF error = NoError /\ f.id \in DOMAIN reminders
                        THEN [reminders EXCEPT ![f.id].completed = TRUE]
                        ELSE reminders
        /\ calls' = IF error = NoError /\ after.rows # <<>>
                    THEN [calls EXCEPT ![i] = after]
                    ELSE Remove(calls, i)
        /\ lastCall' = IF error # NoError
                       THEN CheckThresholdSettled(call, "alert", error)
                       ELSE IF after.rows = <<>>
                       THEN CheckThresholdSettled(after, "none", NoError)
                       ELSE lastCall
        /\ UNCHANGED <<nextReminderId, transactionTable, categoryTable, now, server, passes>>

\* checkThresholdReminders, later runs: createAlert for the row at hand
\* settles.  The alert is written from the row as it was fetched.  When it
\* rejects, the catch block ends the call; otherwise the loop runs to its
\* next createAlert, or to its end.
CheckThresholdCreateAlert(i, dbOk) ==
    LET call == calls[i]
        f == Head(call.rows)
        error == CreateAlertCatch(CreateAlertTry(dbOk))
        after == CheckThresholdAdvance(call)
    IN  /\ call.op = "checkThresholdReminders"
        /\ alerts' = IF error = NoError
                     THEN Append(alerts, AlertRow(nextAlertId, call.userId, "WARNING",
                                                  ThresholdMessage(f, call.amount), f.id))
                     ELSE alerts
        /\ nextAlertId' = IF error = NoError THEN nextAlertId + 1 ELSE nextAlertId
        /\ calls' = IF error = NoError /\ after.rows # <<>>
                    THEN [calls EXCEPT ![i] = after]
                    ELSE Remove(calls, i)
        /\ lastCall' = IF error # NoError
                       THEN CheckThresholdSettled(call, "alert", error)
                       ELSE IF after.rows = <<>>
                       THEN CheckThresholdSettled(after, "none", NoError)
                       ELSE lastCall
        /\ UNCHANGED <<reminderTable, transactionTable, categoryTable, now, server, passes>>

----------------------------------------------------------------------------
(* NotificationService: the due-date sweeps                                *)

\* new Date(now.getFullYear(), now.getMonth(), now.getDate()): midnight.
Midnight(t) == (t \div DayLen) * DayLen

\* Date.prototype.toDateString(): the calendar day.
DateString(t) == t \div DayLen

\* Alternative reading, kept for comparison: the query leaves out the
\* reminderType filter.
DueWhereAnyType(r, reminderType, at) ==
    /\ r.completed = FALSE
    /\ r.dueDate <= at

\* where: { reminderType, completed: false, dueDate: { lte: now } }
\* at: the value of `const now = new Date()` taken when the sweep was called.
DueWhere(r, reminderType, at) ==
    /\ r.reminderType = reminderType
    /\ r.completed = FALSE
    /\ r.dueDate <= at

DueMatches(reminderType, at) ==
    {id \in DOMAIN reminders : DueWhere(reminders[id], reminderType, at)}

\* Alternative reading, kept for comparison: only reminders due today trigger.
DueTriggersTodayOnly(r, at) ==
    DateString(r.dueDate) = DateString(Midnight(at))

\* const isToday = dueDate.toDateString() === today.toDateString();
\* if (isToday || dueDate < today)
DueTriggers(r, at) ==
    LET today == Midnight(at)
        isToday == DateString(r.dueDate) = DateString(today)
    IN  isToday \/ r.dueDate < today

\* The loop of a sweep up to its next await: see ThresholdLoop.
RECURSIVE DueLoop(_, _)
DueLoop(rows, at) ==
    IF rows = <<>> THEN <<>>
    ELSE IF DueTriggers(Head(rows).row, at) THEN rows
    ELSE DueLoop(Tail(rows), at)

TransactionMessage(f) ==
    LET transactionType == IF f.row.transactionType = "INCOME" THEN "Income" ELSE "Expense"
        amount == IF f.row.transactionAmount # NoDecimal
                  THEN <<" of $", ToString(Number(f.row.transactionAmount))>> ELSE <<>>
        categoryName == IF ~Falsy(f.categoryName)
                        THEN <<" in ", f.categoryName>> ELSE <<>>
    IN  << "Transaction reminder: ", f.row.title, ". ", transactionType, " transaction" >>
            \o amount \o categoryName \o << " is due today." >>

GeneralMessage(f) ==
    << "Reminder: ", f.row.title >>
        \o (IF ~Falsy(f.row.description) THEN <<" - ", f.row.description>> ELSE <<>>)

\* The two sweeps: checkTransactionReminders ("tx") and
\* checkGeneralReminders ("gen").
Sides == {"tx", "gen"}

SweptType(side) == IF side = "tx" THEN "TRANSACTION" ELSE "GENERAL"

SweepMessage(side, f) ==
    IF side = "tx" THEN TransactionMessage(f) ELSE GeneralMessage(f)

\* Alternative reading, kept for comparison: the sweep rethrows whatever its
\* try block threw.
SweepRethrow(error) == error

\* The catch block of checkTransactionReminders and of checkGeneralReminders:
\* logError, and nothing is thrown again.
SweepCatch(error) == NoError

\* Promise.all rejects with the first rejection among its members.
PromiseAll(errors) ==
    IF \A i \in DOMAIN errors : errors[i] = NoError THEN NoError
    ELSE errors[CHOOSE i \in DOMAIN errors :
                    /\ errors[i] # NoError
                    /\ \A j \in 1..(i - 1) : errors[j] = NoError]

\* A sweep right after it was called: it has read the clock and awaits
\* findMany.  stage: "query" (awaiting findMany), "loop" (awaiting
\* createAlert for the first of rows), "done" (returned).
NewSweep ==
    [ stage     |-> "query",
      rows      |-> <<>>,
      seen      |-> EmptyRec,
      triggered |-> <<>>,
      written   |-> <<>>,
      fault     |-> "none",
      error     |-> NoError ]

\* checkAllReminders right after it was called: both sweeps have been
\* called inside Promise.all([...]) and each awaits its findMany.
NewPass(from) ==
    [ from |-> from,
      at   |-> now,
      tx   |-> NewSweep,
      gen  |-> NewSweep ]

\* What checkAllReminders leaves in lastCall when Promise.all settles.
CheckAllSettled(pass) ==
    [ op           |-> "checkAllReminders",
      from         |-> pass.from,
      at           |-> pass.at,
      txFault      |-> pass.tx.fault,
      genFault     |-> pass.gen.fault,
      txSeen       |-> pass.tx.seen,
      genSeen      |-> pass.gen.seen,
      txTriggered  |-> pass.tx.triggered,
      genTriggered |-> pass.gen.triggered,
      txWritten    |-> pass.tx.written,
      genWritten   |-> pass.gen.written,
      error        |-> PromiseAll(<<pass.tx.error, pass.gen.error>>) ]

\* A run of one sweep has ended and left the evaluation as `pass`: when both
\* sweeps have returned, Promise.all and checkAllReminders resolve.
SweepYield(i, pass) ==
    IF pass.tx.stage = "done" /\ pass.gen.stage = "done"
    THEN /\ passes' = Remove(passes, i)
         /\ lastCall' = CheckAllSettled(pass)
    ELSE /\ passes' = [passes EXCEPT ![i] = pass]
         /\ UNCHANGED lastCall

\* A sweep, first run: findMany settles.  When it rejects, the catch block
\* ends the sweep; otherwise the loop runs to its first createAlert, or to
\* its end.
SweepFindMany(i, side, order, dbOk) ==
    LET pass == passes[i]
        rows == IF dbOk THEN DueLoop(Fetched(order), pass.at) ELSE <<>>
        sweep == [ stage     |-> IF rows # <<>> THEN "loop" ELSE "done",
                   rows      |-> rows,
                   seen      |-> IF dbOk THEN reminders ELSE EmptyRec,
                   triggered |-> <<>>,
                   written   |-> <<>>,
                   fault     |-> IF dbOk THEN "none" ELSE "find",
                   error     |-> IF dbOk THEN NoError
                                 ELSE SweepCatch(PrismaError(<<"connection">>)) ]
    IN  /\ pass[side].stage = "query"
        /\ SweepYield(i, [pass EXCEPT ![side] = sweep])
        /\ UNCHANGED <<reminderTable, alertTable, transactionTable, categoryTable, now,
                       server, calls>>

\* A sweep, later runs: createAlert for the row at hand settles.  The alert
\* is written from the row as it was fetched.  When it rejects, the catch
\* block ends the sweep; otherwise the loop runs to its next createAlert, or
\* to its end.
SweepCreateAlert(i, side, dbOk) ==
    LET pass == passes[i]
        sweep == pass[side]
        f == Head(sweep.rows)
        error == CreateAlertCatch(CreateAlertTry(dbOk))
        rest == DueLoop(Tail(sweep.rows), pass.at)
        after == IF error = NoError
                 THEN [sweep EXCEPT !.stage = IF rest # <<>> THEN "loop" ELSE "done",
                                    !.rows = rest,
                                    !.triggered = Append(sweep.triggered, f.id),
                                    !.written = Append(sweep.written, nextAlertId)]
                 ELSE [sweep EXCEPT !.stage = "done",
                                    !.rows = <<>>,
                                    !.fault = "alert",
                                    !.error = SweepCatch(error)]
    IN  /\ sweep.stage = "loop"
        /\ alerts' = IF error = NoError
                     THEN Append(alerts, AlertRow(nextAlertId, f.row.userId, "INFO",
                                                  SweepMessage(side, f), f.id))
                     ELSE alerts
        /\ nextAlertId' = IF error = NoError THEN nextAlertId + 1 ELSE nextAlertId
        /\ SweepYield(i, [pass EXCEPT ![side] = after])
        /\ UNCHANGED <<reminderTable, transactionTable, categoryTable, now, server, calls>>

\* checkTransactionReminders: findMany settles / createAlert settles.
CheckTransactionRemindersFindMany(i, order, dbOk) == SweepFindMany(i, "tx", order, dbOk)

CheckTransactionRemindersCreateAlert(i, dbOk) == SweepCreateAlert(i, "tx", dbOk)

\* checkGeneralReminders: findMany settles / createAlert settles.
CheckGeneralRemindersFindMany(i, order, dbOk) == SweepFindMany(i, "gen", order, dbOk)

CheckGeneralRemindersCreateAlert(i, dbOk) == SweepCreateAlert(i, "gen", dbOk)

\* checkAllReminders is called: Promise.all calls both sweeps, each runs to
\* its findMany, and the call yields.
CheckAllReminders(from) ==
    /\ passes' = Append(passes, NewPass(from))
    /\ UNCHANGED <<reminderTable, alertTable, transactionTable, categoryTable, now,
                   shutdown, calls, lastCall>>

----------------------------------------------------------------------------
(* server.ts: startServer, the reminder scheduler, the shutdown handlers   *)

\* validateDatabaseConnection, first run: prisma.$connect() settles.  When
\* it rejects, the catch block calls process.exit(1).
ValidateDatabaseConnectionConnect(dbOk) ==
    /\ scheduler = "off"
    /\ shutdown = "none"
    /\ scheduler' = IF dbOk THEN "connected" ELSE scheduler
    /\ shutdown' = IF dbOk THEN shutdown ELSE "exited"
    /\ UNCHANGED <<reminderTable, alertTable, transactionTable, categoryTable, now,
                   passes, calls, lastCall>>

\* validateDatabaseConnection, second run: SELECT 1 settles.  When it
\* resolves, startServer goes on: it calls app.listen and registers the
\* signal handlers.
ValidateDatabaseConnectionQuery(dbOk) ==
    /\ scheduler = "connected"
    /\ shutdown = "none"
    /\ scheduler' = IF dbOk THEN "listening" ELSE scheduler
    /\ shutdown' = IF dbOk THEN shutdown ELSE "exited"
    /\ UNCHANGED <<reminderTable, alertTable, transactionTable, categoryTable, now,
                   passes, calls, lastCall>>

\* Alternative reading, kept for comparison: the timer is armed without a
\* check on startup.
StartServerLazy ==
    /\ scheduler = "listening"
    /\ shutdown = "none"
    /\ scheduler' = "running"
    /\ UNCHANGED <<reminderTable, alertTable, transactionTable, categoryTable, now,
                   passes, shutdown, calls, lastCall>>

\* The callback of app.listen: it calls checkAllReminders without awaiting
\* it, arms setInterval and returns.  It runs once the server listens; a
\* server.close called while the lookup of HOST is pending drops the listen,
\* so after a signal the callback does not run.
StartServer ==
    /\ scheduler = "listening"
    /\ shutdown = "none"
    /\ scheduler' = "running"
    /\ CheckAllReminders("startup")

\* Alternative reading, kept for comparison: the timer stops once an
\* evaluation has settled.
IntervalTickOnce ==
    /\ scheduler = "running"
    /\ shutdown # "exited"
    /\ lastCall.op # "checkAllReminders"
    /\ CheckAllReminders("interval")
    /\ UNCHANGED scheduler

\* The callback of setInterval: it calls checkAllReminders without awaiting
\* it.  Nothing looks at the evaluations in flight, and nothing clears the
\* timer.
IntervalTick ==
    /\ scheduler = "running"
    /\ shutdown # "exited"
    /\ CheckAllReminders("interval")
    /\ UNCHANGED scheduler

\* Time passes.
AdvanceClock ==
    /\ now < MaxTime
    /\ shutdown # "exited"
    /\ now' = now + 1
    /\ UNCHANGED <<reminderTable, alertTable, transactionTable, categoryTable, server,
                   passes, calls, lastCall>>

\* process.on('SIGTERM' | 'SIGINT'): server.close(callback) is called.  The
\* handlers are registered in the run that calls app.listen, when listen has
\* returned: with HOST a name the lookup is still pending then, and a signal
\* can arrive before the callback of listen has run.  The handlers have no
\* condition: a further signal calls server.close again, which changes
\* nothing here.
Signal ==
    /\ scheduler \in {"listening", "running"}
    /\ shutdown # "exited"
    /\ shutdown' = IF shutdown = "none" THEN "signalled" ELSE shutdown
    /\ UNCHANGED <<reminderTable, alertTable, transactionTable, categoryTable, now,
                   scheduler, passes, calls, lastCall>>

\* The callback of server.close, first run: it calls prisma.$disconnect()
\* and yields.  The evaluations in flight stay where they were.
CloseCallback ==
    /\ shutdown = "signalled"
    /\ shutdown' = "disconnecting"
    /\ UNCHANGED <<reminderTable, alertTable, transactionTable, categoryTable, now,
                   scheduler, passes, calls, lastCall>>

\* The callback of server.close, second run: $disconnect settles and
\* process.exit(0) ends the process, whatever is in flight.
Exit ==
    /\ shutdown = "disconnecting"
    /\ shutdown' = "exited"
    /\ UNCHANGED <<reminderTable, alertTable, transactionTable, categoryTable, now,
                   scheduler, passes, calls, lastCall>>

----------------------------------------------------------------------------
(* TransactionService                                                      *)
(*                                                                         *)
(* The definition of the transactions table is not in the repository: a    *)
(* foreign key from transactions.categoryId to categories may or may not   *)
(* exist, with any referential action.  Where it matters the outcome is an *)
(* input of the step (fk, onDelete).                                       *)

\* prisma.transaction.create: description and receiptUrl are free text that
\* nothing reads and are left out of the row.
NewTransaction(userId, data) ==
    [ userId     |-> userId,
      type       |-> data.type,
      amount     |-> Decimal(data.amount),
      categoryId |-> data.categoryId ]

\* prisma.category.findUnique({ where: { id } }) and the two tests on its
\* result; type is the type the category has to match.
CategoryCheck(categoryId, type, dbOk) ==
    IF ~dbOk
    THEN PrismaError(<<"connection">>)
    ELSE IF categoryId \notin DOMAIN categories
    THEN NotFoundError(<<"Category not found">>)
    ELSE IF categories[categoryId].type # type
    THEN BadRequestError(<<"Category type does not match transaction type">>)
    ELSE NoError

\* prisma.transaction.create: what it throws.
CreateTransactionWrite(call, dbOk, fk) ==
    IF ~dbOk
    THEN PrismaError(<<"connection">>)
    ELSE IF fk /\ call.data.categoryId \notin DOMAIN categories
    THEN PrismaError(<<"foreign key">>)
    ELSE NoError

CreateTransactionCatch(error) ==
    IF error = NoError THEN NoError
    ELSE IF error.name \in {"NotFoundError", "BadRequestError"} THEN error
    ELSE DatabaseError(<<"Failed to create transaction">>)

TransactionSettled(op, step, transactionId, userId, data, dbOk, error) ==
    [ op     |-> op,
      step   |-> step,
      userId |-> userId,
      dbOk   |-> dbOk,
      id     |-> transactionId,
      data   |-> data,
      error  |-> error ]

\* createTransaction, first run: category.findUnique settles.
CreateTransactionFindUnique(userId, data, dbOk) ==
    LET error == CategoryCheck(data.categoryId, data.type, dbOk)
    IN  /\ calls' = IF error = NoError
                    THEN Append(calls, [op |-> "createTransaction", userId |-> userId,
                                        data |-> data])
                    ELSE calls
        /\ lastCall' = IF error = NoError THEN lastCall
                       ELSE TransactionSettled("createTransaction", "findUnique", 0, userId,
                                               data, dbOk, CreateTransactionCatch(error))
        /\ UNCHANGED <<reminderTable, alertTable, transactionTable, categoryTable, now,
                       server, passes>>

\* createTransaction, second run: transaction.create settles and the method
\* returns or throws.  It makes no call to the notification service.
CreateTransactionCreate(i, dbOk, fk) ==
    LET call == calls[i]
        error == CreateTransactionWrite(call, dbOk, fk)
        id == nextTransactionId
    IN  /\ call.op = "createTransaction"
        /\ transactions' = IF error = NoError
                           THEN transactions @@ (id :> NewTransaction(call.userId, call.data))
                           ELSE transactions
        /\ nextTransactionId' = IF error = NoError THEN id + 1 ELSE id
        /\ calls' = Remove(calls, i)
        /\ lastCall' = TransactionSettled("createTransaction", "create",
                                          IF error = NoError THEN id ELSE 0, call.userId,
                                          call.data, dbOk, CreateTransactionCatch(error))
        /\ UNCHANGED <<reminderTable, alertTable, categoryTable, now, server, passes>>

\* prisma.transaction.findFirst({ where: { id: transactionId, userId } })
FindOwnedTransaction(transactionId, userId) ==
    /\ transactionId \in DOMAIN transactions
    /\ transactions[transactionId].userId = userId

\* updateTransaction and deleteTransaction from the call to the second await.
TransactionFindFirstTry(transactionId, userId, dbOk) ==
    IF ~dbOk
    THEN PrismaError(<<"connection">>)
    ELSE IF ~FindOwnedTransaction(transactionId, userId)
    THEN NotFoundError(<<"Transaction not found">>)
    ELSE NoError

\* const updateData = {}; one assignment per key present in the payload.
ApplyTransactionUpdate(row, data) ==
    [ userId     |-> row.userId,
      type       |-> row.type,
      amount     |-> IF Has(data, "amount") THEN Decimal(data.amount) ELSE row.amount,
      categoryId |-> IF Has(data, "categoryId") THEN data.categoryId ELSE row.categoryId ]

\* prisma.transaction.update({ where: { id: transactionId }, data: updateData })
UpdateTransactionWrite(call, dbOk, fk) ==
    IF ~dbOk
    THEN PrismaError(<<"connection">>)
    ELSE IF call.id \notin DOMAIN transactions
    THEN PrismaError(<<"record not found">>)
    ELSE IF fk /\ Has(call.data, "categoryId")
            /\ call.data.categoryId \notin DOMAIN categories
    THEN PrismaError(<<"foreign key">>)
    ELSE NoError

UpdateTransactionCatch(error) ==
    IF error = NoError THEN NoError
    ELSE IF error.name \in {"NotFoundError", "BadRequestError"} THEN error
    ELSE DatabaseError(<<"Failed to update transaction">>)

\* updateTransaction, first run: transaction.findFirst settles.  The method
\* throws, or calls category.findUnique (if (data.categoryId)), or builds
\* updateData and calls transaction.update.
UpdateTransactionFindFirst(transactionId, userId, data, dbOk) ==
    LET error == TransactionFindFirstTry(transactionId, userId, dbOk)
        verify == Has(data, "categoryId") /\ ~Falsy(data.categoryId)
    IN  /\ calls' = IF error = NoError
                    THEN Append(calls, [ op     |-> "updateTransaction",
                                         stage  |-> IF verify THEN "findUnique" ELSE "update",
                                         id     |-> transactionId,
                                         userId |-> userId,
                                         type   |-> transactions[transactionId].type,
                                         data   |-> data ])
                    ELSE calls
        /\ lastCall' = IF error = NoError THEN lastCall
                       ELSE TransactionSettled("updateTransaction", "findFirst",
                                               transactionId, userId, data, dbOk,
                                               UpdateTransactionCatch(error))
        /\ UNCHANGED <<reminderTable, alertTable, transactionTable, categoryTable, now,
                       server, passes>>

\* updateTransaction, the run after category.findUnique settles: the
\* category is tested against the type of the transaction as findFirst read
\* it (existing.type).
UpdateTransactionFindUnique(i, dbOk) ==
    LET call == calls[i]
        error == CategoryCheck(call.data.categoryId, call.type, dbOk)
    IN  /\ call.op = "updateTransaction"
        /\ call.stage = "findUnique"
        /\ calls' = IF error = NoError
                    THEN [calls EXCEPT ![i].stage = "update"]
                    ELSE Remove(calls, i)
        /\ lastCall' = IF error = NoError THEN lastCall
                       ELSE TransactionSettled("updateTransaction", "findUnique", call.id,
                                               call.userId, call.data, dbOk,
                                               UpdateTransactionCatch(error))
        /\ UNCHANGED <<reminderTable, alertTable, transactionTable, categoryTable, now,
                       server, passes>>

\* updateTransaction, last run: transaction.update settles and the method
\* returns or throws.  It makes no call to the notification service either.
UpdateTransactionUpdate(i, dbOk, fk) ==
    LET call == calls[i]
        error == UpdateTransactionWrite(call, dbOk, fk)
    IN  /\ call.op = "updateTransaction"
        /\ call.stage = "update"
        /\ transactions' = IF error = NoError
                           THEN [transactions EXCEPT
                                    ![call.id] = ApplyTransactionUpdate(@, call.data)]
                           ELSE transactions
        /\ calls' = Remove(calls, i)
        /\ lastCall' = TransactionSettled("updateTransaction", "update", call.id,
                                          call.userId, call.data, dbOk,
                                          UpdateTransactionCatch(error))
        /\ UNCHANGED <<nextTransactionId, reminderTable, alertTable, categoryTable, now,
                       server, passes>>

\* prisma.transaction.delete({ where: { id: transactionId } })
DeleteTransactionWrite(call, dbOk) ==
    IF ~dbOk
    THEN PrismaError(<<"connection">>)
    ELSE IF call.id \notin DOMAIN transactions
    THEN PrismaError(<<"record not found">>)
    ELSE NoError

DeleteTransactionCatch(error) ==
    IF error = NoError THEN NoError
    ELSE IF error.name = "NotFoundError" THEN error
    ELSE DatabaseError(<<"Failed to delete transaction">>)

\* deleteTransaction, first run: findFirst settles.
DeleteTransactionFindFirst(transactionId, userId, dbOk) ==
    LET error == TransactionFindFirstTry(transactionId, userId, dbOk)
    IN  /\ calls' = IF error = NoError
                    THEN Append(calls, [op |-> "deleteTransaction", id |-> transactionId,
                                        userId |-> userId])
                    ELSE calls
        /\ lastCall' = IF error = NoError THEN lastCall
                       ELSE TransactionSettled("deleteTransaction", "findFirst",
                                               transactionId, userId, EmptyRec, dbOk,
                                               DeleteTransactionCatch(error))
        /\ UNCHANGED <<reminderTable, alertTable, transactionTable, categoryTable, now,
                       server, passes>>

\* deleteTransaction, second run: the delete settles.
DeleteTransactionDelete(i, dbOk) ==
    LET call == calls[i]
        error == DeleteTransactionWrite(call, dbOk)
    IN  /\ call.op = "deleteTransaction"
        /\ transactions' = IF error = NoError
                           THEN [id \in DOMAIN transactions \ {call.id} |-> transactions[id]]
                           ELSE transactions
        /\ calls' = Remove(calls, i)
        /\ lastCall' = TransactionSettled("deleteTransaction", "delete", call.id,
                                          call.userId, EmptyRec, dbOk,
                                          DeleteTransactionCatch(error))
        /\ UNCHANGED <<nextTransactionId, reminderTable, alertTable, categoryTable, now,
                       server, passes>>

----------------------------------------------------------------------------
(* CategoryService                                                         *)

\* prisma.category.findFirst({ where: { userId, name, type } }) found a row.
CategoryExists(userId, name, type) ==
    \E c \in DOMAIN categories :
        /\ categories[c].userId = userId
        /\ categories[c].name = name
        /\ categories[c].type = type

\* createCategory from its call to its second await.
CreateCategoryTry(data, userId, dbOk) ==
    IF ~dbOk
    THEN PrismaError(<<"connection">>)
    ELSE IF CategoryExists(userId, data.name, data.type)
    THEN ValidationError(<<"Category with this name already exists for this type">>)
    ELSE NoError

\* prisma.category.create: what it throws.  categories_userId_name_type_key
\* is a unique index on (userId, name, type).
CreateCategoryWrite(call, dbOk) ==
    IF ~dbOk
    THEN PrismaError(<<"connection">>)
    ELSE IF CategoryExists(call.userId, call.data.name, call.data.type)
    THEN PrismaError(<<"unique constraint">>)
    ELSE NoError

CreateCategoryCatch(error) ==
    IF error = NoError THEN NoError
    ELSE IF error.name = "ValidationError" THEN error
    ELSE DatabaseError(<<"Failed to create category">>)

CategorySettled(op, step, categoryId, userId, dbOk, error) ==
    [ op     |-> op,
      step   |-> step,
      userId |-> userId,
      dbOk   |-> dbOk,
      id     |-> categoryId,
      error  |-> error ]

\* createCategory, first run: findFirst settles.
CreateCategoryFindFirst(data, userId, dbOk) ==
    LET error == CreateCategoryTry(data, userId, dbOk)
    IN  /\ calls' = IF error = NoError
                    THEN Append(calls, [op |-> "createCategory", userId |-> userId,
                                        data |-> data])
                    ELSE calls
        /\ lastCall' = IF error = NoError THEN lastCall
                       ELSE CategorySettled("createCategory", "findFirst", NULL, userId, dbOk,
                                            CreateCategoryCatch(error))
        /\ UNCHANGED <<reminderTable, alertTable, transactionTable, categoryTable, now,
                       server, passes>>

\* createCategory, second run: the create settles.
CreateCategoryCreate(i, dbOk) ==
    LET call == calls[i]
        error == CreateCategoryWrite(call, dbOk)
        id == CategoryIdOf[nextCategoryId]
    IN  /\ call.op = "createCategory"
        /\ categories' = IF error = NoError
                         THEN categories @@ (id :> [ name   |-> call.data.name,
                                                     type   |-> call.data.type,
                                                     userId |-> call.userId ])
                         ELSE categories
        /\ nextCategoryId' = IF error = NoError THEN nextCategoryId + 1 ELSE nextCategoryId
        /\ calls' = Remove(calls, i)
        /\ lastCall' = CategorySettled("createCategory", "create",
                                       IF error = NoError THEN id ELSE NULL, call.userId,
                                       dbOk, CreateCategoryCatch(error))
        /\ UNCHANGED <<reminderTable, alertTable, transactionTable, now, server, passes>>

\* The transactions that reference a category.
TransactionsOf(categoryId) ==
    {t \in DOMAIN transactions : transactions[t].categoryId = categoryId}

\* deleteCategory from its call to its second await.
DeleteCategoryTry(categoryId, userId, dbOk) ==
    IF ~dbOk
    THEN PrismaError(<<"connection">>)
    ELSE IF ~(categoryId \in DOMAIN categories /\ categories[categoryId].userId = userId)
    THEN NotFoundError(<<"Category not found">>)
    ELSE IF TransactionsOf(categoryId) # {}
    THEN ValidationError(<<"Cannot delete category with existing transactions">>)
    ELSE NoError

\* The referential actions transactions.categoryId may have been given.
ReferentialActions == {"Restrict", "Cascade", "None"}

\* prisma.category.delete({ where: { id: categoryId } }): what it throws.
DeleteCategoryWrite(call, dbOk, onDelete) ==
    IF ~dbOk
    THEN PrismaError(<<"connection">>)
    ELSE IF call.id \notin DOMAIN categories
    THEN PrismaError(<<"record not found">>)
    ELSE IF onDelete = "Restrict" /\ TransactionsOf(call.id) # {}
    THEN PrismaError(<<"foreign key">>)
    ELSE NoError

DeleteCategoryCatch(error) ==
    IF error = NoError THEN NoError
    ELSE IF error.name \in {"NotFoundError", "ValidationError"} THEN error
    ELSE DatabaseError(<<"Failed to delete category">>)

\* deleteCategory, first run: findFirst settles.
DeleteCategoryFindFirst(categoryId, userId, dbOk) ==
    LET error == DeleteCategoryTry(categoryId, userId, dbOk)
    IN  /\ calls' = IF error = NoError
                    THEN Append(calls, [op |-> "deleteCategory", id |-> categoryId,
                                        userId |-> userId])
                    ELSE calls
        /\ lastCall' = IF error = NoError THEN lastCall
                       ELSE CategorySettled("deleteCategory", "findFirst", categoryId, userId,
                                            dbOk, DeleteCategoryCatch(error))
        /\ UNCHANGED <<reminderTable, alertTable, transactionTable, categoryTable, now,
                       server, passes>>

\* deleteCategory, second run: the delete settles.  The store applies
\* reminders_categoryId_fkey (ON DELETE SET NULL) to the reminders that
\* reference the category, and the referential action of the transactions.
DeleteCategoryDelete(i, dbOk, onDelete) ==
    LET call == calls[i]
        error == DeleteCategoryWrite(call, dbOk, onDelete)
    IN  /\ call.op = "deleteCategory"
        /\ categories' = IF error = NoError
                         THEN [c \in DOMAIN categories \ {call.id} |-> categories[c]]
                         ELSE categories
        /\ reminders' = IF error = NoError
                        THEN [id \in DOMAIN reminders |->
                                IF reminders[id].categoryId = call.id
                                THEN [reminders[id] EXCEPT !.categoryId = NULL]
                                ELSE reminders[id]]
                        ELSE reminders
        /\ transactions' = IF error = NoError /\ onDelete = "Cascade"
                           THEN [t \in DOMAIN transactions \ TransactionsOf(call.id) |->
                                    transactions[t]]
                           ELSE transactions
        /\ calls' = Remove(calls, i)
        /\ lastCall' = CategorySettled("deleteCategory", "delete", call.id, call.userId, dbOk,
                                       DeleteCategoryCatch(error))
        /\ UNCHANGED <<nextReminderId, alertTable, nextTransactionId, nextCategoryId, now,
                       server, passes>>

----------------------------------------------------------------------------
(* Request payloads                                                        *)

\* reminderType values a client can send: the enum, the legacy tag, case
\* variants, the empty string, garbage.
RawTypes == {"GENERAL", "TRANSACTION", "THRESHOLD", "BUDGET_ALERT",
             "general", "", "BOGUS"}

Opt(key, values) == {EmptyRec} \cup {key :> v : v \in values}

\* The category ids a client sends: those of the seeded categories.
CategoryIds == DOMAIN SeededCategories

\* Payloads of the lifecycle specification: every reminderType.
LifecycleCreates ==
    { [title |-> t, dueDate |-> 0] @@ ty :
        t \in Titles,
        ty \in Opt("reminderType", RawTypes) }

\* Updates of the lifecycle specification: every reminderType, the
\* completed flag, and a payload that carries valid changes next to a
\* reminderType that is not accepted.
LifecycleUpdates ==
    Opt("reminderType", RawTypes)
        \cup Opt("completed", BOOLEAN)
        \cup {[reminderType |-> "BOGUS", completed |-> TRUE, title |-> "Renamed",
               dueDate |-> 1]}

\* Payloads of the access specification: a categoryId that references a
\* category, or none ("c9" is no row of the categories table).
AccessCreates ==
    { [title |-> t, dueDate |-> 0] @@ c :
        t \in Titles,
        c \in Opt("categoryId", {"c1", "c9"}) }

AccessUpdates == Opt("categoryId", {"c1", "c9"})

\* Payloads of the toggle specification: a reminder due now.
ToggleCreates ==
    { [title |-> t, dueDate |-> 0] : t \in Titles }

\* Payloads of the threshold specification: watched category and threshold
\* present or absent, on a THRESHOLD and on a GENERAL reminder.
ThresholdCreates ==
    { [title |-> t, dueDate |-> 0] @@ ty @@ c @@ th :
        t \in Titles,
        ty \in Opt("reminderType", {"THRESHOLD"}),
        c \in Opt("categoryId", {"c1"}),
        th \in Opt("thresholdAmount", {MaxAmount - 1}) }

ThresholdUpdates ==
    Opt("categoryId", {NULL}) \cup Opt("reminderType", {"GENERAL"})

\* Payloads of the transaction-write path.
HookCreates ==
    { [title |-> t, dueDate |-> 0, reminderType |-> "THRESHOLD", categoryId |-> "c1",
       thresholdAmount |-> MaxAmount - 1] : t \in Titles }

TransactionCreates ==
    [type : {"INCOME", "EXPENSE"}, amount : {MaxAmount - 1}, categoryId : {"c1", "c3"}]

TransactionUpdates ==
    Opt("amount", {MaxAmount}) \cup Opt("categoryId", {"c1", "c3"})

CategoryCreates == [name : {"Rent"}, type : {"EXPENSE"}]

\* Payloads of the sweep specification: a stored type of either sweep or
\* of neither, every due date.
SweepCreates ==
    { [title |-> t, dueDate |-> d] @@ ty :
        t \in Titles,
        d \in 0..MaxTime,
        ty \in Opt("reminderType", {"TRANSACTION", "THRESHOLD"}) }

\* Payloads of the fan-out specification: reminders on category c1, of
\* every stored type, the THRESHOLD ones with the lowest or the highest
\* threshold.
WatcherCreates ==
    { [title |-> t, dueDate |-> 0, categoryId |-> "c1"] @@ ty :
        t \in Titles,
        ty \in Opt("reminderType", {"TRANSACTION"}) }
    \cup
    { [title |-> t, dueDate |-> 0, categoryId |-> "c1", reminderType |-> "THRESHOLD"] @@ th :
        t \in Titles,
        th \in {[thresholdAmount |-> 1], [thresholdAmount |-> MaxAmount]} }

\* Payloads of the retry specification: a due-date reminder due now.
RetryCreates ==
    { [title |-> t, dueDate |-> 0] @@ ty :
        t \in Titles,
        ty \in Opt("reminderType", {"TRANSACTION"}) }

\* Payloads of the event-loop specification: a reminder due now.
AsyncCreates ==
    { [title |-> t, dueDate |-> 0] @@ ty :
        t \in Titles,
        ty \in Opt("reminderType", {"TRANSACTION"}) }

\* Payloads of the paths specification: a reminder of any stored type that
\* has a category and a threshold, due at the first instant.
PathCreates ==
    { [title |-> t, dueDate |-> 0, categoryId |-> "c1", thresholdAmount |-> 1] @@ ty :
        t \in Titles,
        ty \in Opt("reminderType", {"TRANSACTION", "THRESHOLD"}) }

\* Bodies of POST /api/alerts.
AlertCreates ==
    [type : {"WARNING", "ERROR", "INFO", "SUCCESS"}, message : {<<"note">>}]

ReminderIds == 1..MaxReminders

WatcherIds == 1..MaxWatchers

TransactionIds == 1..MaxTransactions

AlertIds == 1..MaxAlerts

----------------------------------------------------------------------------
Init ==
    /\ reminders = EmptyRec
    /\ nextReminderId = 1
    /\ alerts = <<>>
    /\ nextAlertId = 1
    /\ transactions = EmptyRec
    /\ nextTransactionId = 1
    /\ categories = SeededCategories
    /\ nextCategoryId = Cardinality(DOMAIN SeededCategories) + 1
    /\ now = 0
    /\ scheduler = "off"
    /\ passes = <<>>
    /\ shutdown = "none"
    /\ calls = <<>>
    /\ lastCall = [op |-> "none"]

\* The process runs.
Running == shutdown # "exited"

\* A call that yields joins the calls in flight, of which there are at most
\* `max` at once.
Room(max) == Len(calls) < max

\* The runs the event loop can make.  Each takes the callers, the payloads
\* and the persistence outcomes (db: TRUE the store answers, FALSE it
\* throws) that the specification using it explores.
CreateReminderReq(users, inputs, ids, db) ==
    \E userId \in users, data \in inputs, dbOk \in db :
        /\ Running
        /\ CreateReminderTry(userId, data, dbOk) = NoError => nextReminderId \in ids
        /\ CreateReminder(userId, data, dbOk)

UpdateReminderFindFirstReq(users, inputs, ids, db, max) ==
    \E reminderId \in ids, userId \in users, data \in inputs, dbOk \in db :
        /\ Running
        /\ UpdateReminderTry(reminderId, userId, data, dbOk) = NoError => Room(max)
        /\ UpdateReminderFindFirst(reminderId, userId, data, dbOk)

UpdateReminderUpdateReq(db) ==
    \E i \in DOMAIN calls, dbOk \in db :
        Running /\ UpdateReminderUpdate(i, dbOk)

ToggleReminderFindFirstReq(users, ids, db, max) ==
    \E reminderId \in ids, userId \in users, dbOk \in db :
        /\ Running
        /\ ToggleReminderTry(reminderId, userId, dbOk) = NoError => Room(max)
        /\ ToggleReminderFindFirst(reminderId, userId, dbOk)

ToggleReminderUpdateReq(db) ==
    \E i \in DOMAIN calls, dbOk \in db :
        Running /\ ToggleReminderUpdate(i, dbOk)

GetReminderByIdReq(users, ids, db) ==
    \E reminderId \in ids, userId \in users, dbOk \in db :
        Running /\ GetReminderById(reminderId, userId, dbOk)

DeleteReminderFindFirstReq(users, ids, db, max) ==
    \E reminderId \in ids, userId \in users, dbOk \in db :
        /\ Running
        /\ DeleteReminderTry(reminderId, userId, dbOk) = NoError => Room(max)
        /\ DeleteReminderFindFirst(reminderId, userId, dbOk)

DeleteReminderDeleteReq(db) ==
    \E i \in DOMAIN calls, dbOk \in db :
        Running /\ DeleteReminderDelete(i, dbOk)

CreateAlertReq(users, inputs, db) ==
    \E userId \in users, data \in inputs, dbOk \in db :
        /\ Running
        /\ dbOk => nextAlertId \in AlertIds
        /\ CreateAlert(userId, data, dbOk)

MarkAsReadFindFirstReq(users, db, max) ==
    \E alertId \in AlertIds, userId \in users, dbOk \in db :
        /\ Running
        /\ AlertFindFirstTry(alertId, userId, dbOk) = NoError => Room(max)
        /\ MarkAsReadFindFirst(alertId, userId, dbOk)

MarkAsReadUpdateReq(db) ==
    \E i \in DOMAIN calls, dbOk \in db :
        Running /\ MarkAsReadUpdate(i, dbOk)

DeleteAlertFindFirstReq(users, db, max) ==
    \E alertId \in AlertIds, userId \in users, dbOk \in db :
        /\ Running
        /\ AlertFindFirstTry(alertId, userId, dbOk) = NoError => Room(max)
        /\ DeleteAlertFindFirst(alertId, userId, dbOk)

DeleteAlertDeleteReq(db) ==
    \E i \in DOMAIN calls, dbOk \in db :
        Running /\ DeleteAlertDelete(i, dbOk)

\* checkThresholdReminders is exported by the notification service; the
\* arguments are those a caller holding a transaction would pass.
CheckThresholdFindManyReq(users, cats, amounts, db, max) ==
    \E userId \in users, categoryId \in cats, amount \in amounts, dbOk \in db :
        \E order \in Orders(ThresholdMatches(userId, categoryId)) :
            /\ Running
            /\ (dbOk /\ ThresholdLoop(Fetched(order), amount) # <<>>) => Room(max)
            /\ CheckThresholdFindMany(userId, categoryId, amount, order, dbOk)

CheckThresholdCreateAlertReq(db) ==
    \E i \in DOMAIN calls, dbOk \in db :
        /\ Running
        /\ dbOk => nextAlertId \in AlertIds
        /\ CheckThresholdCreateAlert(i, dbOk)

CheckTransactionRemindersFindManyReq(db) ==
    \E i \in DOMAIN passes, dbOk \in db :
        \E order \in Orders(DueMatches("TRANSACTION", passes[i].at)) :
            Running /\ CheckTransactionRemindersFindMany(i, order, dbOk)

CheckTransactionRemindersCreateAlertReq(db) ==
    \E i \in DOMAIN passes, dbOk \in db :
        /\ Running
        /\ dbOk => nextAlertId \in AlertIds
        /\ CheckTransactionRemindersCreateAlert(i, dbOk)

CheckGeneralRemindersFindManyReq(db) ==
    \E i \in DOMAIN passes, dbOk \in db :
        \E order \in Orders(DueMatches("GENERAL", passes[i].at)) :
            Running /\ CheckGeneralRemindersFindMany(i, order, dbOk)

CheckGeneralRemindersCreateAlertReq(db) ==
    \E i \in DOMAIN passes, dbOk \in db :
        /\ Running
        /\ dbOk => nextAlertId \in AlertIds
        /\ CheckGeneralRemindersCreateAlert(i, dbOk)

ValidateDatabaseConnectionConnectReq(db) ==
    \E dbOk \in db : ValidateDatabaseConnectionConnect(dbOk)

ValidateDatabaseConnectionQueryReq(db) ==
    \E dbOk \in db : ValidateDatabaseConnectionQuery(dbOk)

\* The timer fires while fewer than `max` evaluations are in flight.
IntervalTickReq(max) == Len(passes) < max /\ IntervalTick

CreateTransactionFindUniqueReq(users, inputs, db, max) ==
    \E userId \in users, data \in inputs, dbOk \in db :
        /\ Running
        /\ CategoryCheck(data.categoryId, data.type, dbOk) = NoError => Room(max)
        /\ CreateTransactionFindUnique(userId, data, dbOk)

CreateTransactionCreateReq(db) ==
    \E i \in DOMAIN calls, dbOk \in db, fk \in BOOLEAN :
        /\ Running
        /\ calls[i].op = "createTransaction"
        /\ CreateTransactionWrite(calls[i], dbOk, fk) = NoError
                => nextTransactionId \in TransactionIds
        /\ CreateTransactionCreate(i, dbOk, fk)

UpdateTransactionFindFirstReq(users, inputs, db, max) ==
    \E transactionId \in TransactionIds, userId \in users, data \in inputs, dbOk \in db :
        /\ Running
        /\ TransactionFindFirstTry(transactionId, userId, dbOk) = NoError => Room(max)
        /\ UpdateTransactionFindFirst(transactionId, userId, data, dbOk)

UpdateTransactionFindUniqueReq(db) ==
    \E i \in DOMAIN calls, dbOk \in db :
        Running /\ UpdateTransactionFindUnique(i, dbOk)

UpdateTransactionUpdateReq(db) ==
    \E i \in DOMAIN calls, dbOk \in db, fk \in BOOLEAN :
        Running /\ UpdateTransactionUpdate(i, dbOk, fk)

DeleteTransactionFindFirstReq(users, db, max) ==
    \E transactionId \in TransactionIds, userId \in users, dbOk \in db :
        /\ Running
        /\ TransactionFindFirstTry(transactionId, userId, dbOk) = NoError => Room(max)
        /\ DeleteTransactionFindFirst(transactionId, userId, dbOk)

DeleteTransactionDeleteReq(db) ==
    \E i \in DOMAIN calls, dbOk \in db :
        Running /\ DeleteTransactionDelete(i, dbOk)

CreateCategoryFindFirstReq(users, inputs, db, max) ==
    \E userId \in users, data \in inputs, dbOk \in db :
        /\ Running
        /\ CreateCategoryTry(data, userId, dbOk) = NoError => Room(max)
        /\ CreateCategoryFindFirst(data, userId, dbOk)

CreateCategoryCreateReq(db) ==
    \E i \in DOMAIN calls, dbOk \in db :
        /\ Running
        /\ calls[i].op = "createCategory"
        /\ CreateCategoryWrite(calls[i], dbOk) = NoError => nextCategoryId <= MaxCategories
        /\ CreateCategoryCreate(i, dbOk)

DeleteCategoryFindFirstReq(users, cats, db, max) ==
    \E categoryId \in cats, userId \in users, dbOk \in db :
        /\ Running
        /\ DeleteCategoryTry(categoryId, userId, dbOk) = NoError => Room(max)
        /\ DeleteCategoryFindFirst(categoryId, userId, dbOk)

DeleteCategoryDeleteReq(db) ==
    \E i \in DOMAIN calls, dbOk \in db, onDelete \in ReferentialActions :
        Running /\ DeleteCategoryDelete(i, dbOk, onDelete)

----------------------------------------------------------------------------
(* Specifications                                                          *)

\* The reminder CRUD surface, with a store that may fail.
Next ==
    \/ CreateReminderReq({"u1"}, LifecycleCreates, ReminderIds, BOOLEAN)
    \/ UpdateReminderFindFirstReq({"u1"}, LifecycleUpdates, ReminderIds, {TRUE}, MaxCalls)
    \/ UpdateReminderUpdateReq(BOOLEAN)
    \/ ToggleReminderFindFirstReq({"u1"}, ReminderIds, {TRUE}, MaxCalls)
    \/ ToggleReminderUpdateReq({TRUE})
    \/ DeleteReminderFindFirstReq({"u1"}, ReminderIds, {TRUE}, MaxCalls)
    \/ DeleteReminderDeleteReq({TRUE})

Spec == Init /\ [][Next]_vars

\* Access by id, by the owner and by another user, and references to
\* categories that do not exist or that go away.
NextAccess ==
    \/ CreateReminderReq(Users, AccessCreates, ReminderIds, BOOLEAN)
    \/ UpdateReminderFindFirstReq(Users, AccessUpdates, ReminderIds, BOOLEAN, MaxCalls)
    \/ UpdateReminderUpdateReq({TRUE})
    \/ ToggleReminderFindFirstReq(Users, ReminderIds, BOOLEAN, MaxCalls)
    \/ ToggleReminderUpdateReq({TRUE})
    \/ GetReminderByIdReq(Users, ReminderIds, BOOLEAN)
    \/ DeleteReminderFindFirstReq(Users, ReminderIds, BOOLEAN, MaxCalls)
    \/ DeleteReminderDeleteReq({TRUE})

SpecAccess == Init /\ [][NextAccess]_vars

\* toggleReminder next to creates and deletes: several calls in flight.
NextToggle ==
    \/ CreateReminderReq(Users, ToggleCreates, ReminderIds, {TRUE})
    \/ DeleteReminderFindFirstReq(Users, ReminderIds, {TRUE}, MaxCalls)
    \/ DeleteReminderDeleteReq({TRUE})
    \/ ToggleReminderFindFirstReq(Users, ReminderIds, {TRUE}, MaxCalls)
    \/ ToggleReminderUpdateReq(BOOLEAN)

SpecToggle == Init /\ [][NextToggle]_vars

\* The reactive path: threshold reminders, the changes that can reach them
\* while a check is in flight, and direct threshold checks.
NextThreshold ==
    \/ CreateReminderReq({"u1"}, ThresholdCreates, ReminderIds, {TRUE})
    \/ UpdateReminderFindFirstReq({"u1"}, ThresholdUpdates, ReminderIds, {TRUE}, MaxCalls)
    \/ UpdateReminderUpdateReq({TRUE})
    \/ ToggleReminderFindFirstReq({"u1"}, ReminderIds, {TRUE}, MaxCalls)
    \/ ToggleReminderUpdateReq({TRUE})
    \/ DeleteCategoryFindFirstReq({"u1"}, {"c1"}, {TRUE}, MaxCalls)
    \/ DeleteCategoryDeleteReq({TRUE})
    \/ CheckThresholdFindManyReq({"u1"}, {"c1"}, 1..MaxAmount, BOOLEAN, MaxCalls)
    \/ CheckThresholdCreateAlertReq(BOOLEAN)

SpecThreshold == Init /\ [][NextThreshold]_vars

\* The transaction-write path next to the threshold reminders it should
\* have evaluated, and the category writes its lookups race with.
NextHook ==
    \/ CreateReminderReq({"u1"}, HookCreates, ReminderIds, {TRUE})
    \/ CreateTransactionFindUniqueReq({"u1"}, TransactionCreates, {TRUE}, MaxCalls)
    \/ CreateTransactionCreateReq(BOOLEAN)
    \/ UpdateTransactionFindFirstReq({"u1"}, TransactionUpdates, {TRUE}, MaxCalls)
    \/ UpdateTransactionFindUniqueReq({TRUE})
    \/ UpdateTransactionUpdateReq(BOOLEAN)
    \/ DeleteTransactionFindFirstReq({"u1"}, {TRUE}, MaxCalls)
    \/ DeleteTransactionDeleteReq({TRUE})
    \/ CreateCategoryFindFirstReq({"u1"}, CategoryCreates, {TRUE}, MaxCalls)
    \/ CreateCategoryCreateReq({TRUE})
    \/ DeleteCategoryFindFirstReq({"u1"}, {"c1", "c3"}, {TRUE}, MaxCalls)
    \/ DeleteCategoryDeleteReq({TRUE})
    \/ CheckThresholdFindManyReq({"u1"}, {"c1"}, {MaxAmount - 1}, {TRUE}, MaxCalls)
    \/ CheckThresholdCreateAlertReq({TRUE})

SpecHook == Init /\ [][NextHook]_vars

\* The scheduled path: the server starts, the timer fires, the sweeps run,
\* time passes, reminders are created meanwhile.
NextSweep ==
    \/ CreateReminderReq({"u1"}, SweepCreates, ReminderIds, {TRUE})
    \/ ValidateDatabaseConnectionConnectReq(BOOLEAN)
    \/ ValidateDatabaseConnectionQueryReq(BOOLEAN)
    \/ StartServer
    \/ IntervalTickReq(Serial)
    \/ CheckTransactionRemindersFindManyReq({TRUE})
    \/ CheckTransactionRemindersCreateAlertReq({TRUE})
    \/ CheckGeneralRemindersFindManyReq({TRUE})
    \/ CheckGeneralRemindersCreateAlertReq({TRUE})
    \/ AdvanceClock

SpecSweep == Init /\ [][NextSweep]_vars

\* Passes over several reminders, with a persistence layer that may fail at
\* the query or at any alert write.
NextFaults ==
    \/ CreateReminderReq({"u1"}, WatcherCreates, WatcherIds, {TRUE})
    \/ CheckThresholdFindManyReq({"u1"}, {"c1"}, {MaxAmount - 1, MaxAmount}, BOOLEAN, Serial)
    \/ CheckThresholdCreateAlertReq(BOOLEAN)
    \/ ValidateDatabaseConnectionConnectReq({TRUE})
    \/ ValidateDatabaseConnectionQueryReq({TRUE})
    \/ StartServer
    \/ IntervalTickReq(Serial)
    \/ CheckTransactionRemindersFindManyReq(BOOLEAN)
    \/ CheckTransactionRemindersCreateAlertReq(BOOLEAN)
    \/ CheckGeneralRemindersFindManyReq(BOOLEAN)
    \/ CheckGeneralRemindersCreateAlertReq(BOOLEAN)

SpecFaults == Init /\ [][NextFaults]_vars

\* The scheduled path with a persistence layer that may fail.
NextRetry ==
    \/ CreateReminderReq({"u1"}, RetryCreates, ReminderIds, {TRUE})
    \/ ToggleReminderFindFirstReq({"u1"}, ReminderIds, {TRUE}, Serial)
    \/ ToggleReminderUpdateReq({TRUE})
    \/ ValidateDatabaseConnectionConnectReq({TRUE})
    \/ ValidateDatabaseConnectionQueryReq({TRUE})
    \/ StartServer
    \/ IntervalTickReq(Serial)
    \/ CheckTransactionRemindersFindManyReq(BOOLEAN)
    \/ CheckTransactionRemindersCreateAlertReq(BOOLEAN)
    \/ CheckGeneralRemindersFindManyReq(BOOLEAN)
    \/ CheckGeneralRemindersCreateAlertReq(BOOLEAN)

\* The timer keeps firing, and the store does not fail for ever: a query or
\* an alert write that keeps being attempted is answered in the end.
SpecRetry ==
    /\ Init
    /\ [][NextRetry]_vars
    /\ WF_vars(IntervalTickReq(Serial))
    /\ SF_vars(CheckTransactionRemindersFindManyReq({TRUE}))
    /\ SF_vars(CheckTransactionRemindersCreateAlertReq({TRUE}))
    /\ SF_vars(CheckGeneralRemindersFindManyReq({TRUE}))
    /\ SF_vars(CheckGeneralRemindersCreateAlertReq({TRUE}))

\* The scheduler next to the requests that are served meanwhile, until the
\* process exits.
NextAsync ==
    \/ CreateReminderReq({"u1"}, AsyncCreates, ReminderIds, {TRUE})
    \/ ToggleReminderFindFirstReq({"u1"}, ReminderIds, {TRUE}, Serial)
    \/ ToggleReminderUpdateReq({TRUE})
    \/ ValidateDatabaseConnectionConnectReq(BOOLEAN)
    \/ ValidateDatabaseConnectionQueryReq(BOOLEAN)
    \/ StartServer
    \/ IntervalTickReq(MaxPasses)
    \/ CheckTransactionRemindersFindManyReq({TRUE})
    \/ CheckTransactionRemindersCreateAlertReq({TRUE})
    \/ CheckGeneralRemindersFindManyReq({TRUE})
    \/ CheckGeneralRemindersCreateAlertReq({TRUE})
    \/ Signal
    \/ CloseCallback
    \/ Exit

SpecAsync == Init /\ [][NextAsync]_vars

\* Both evaluation paths next to reminders of every type and of both
\* users.
NextPaths ==
    \/ CreateReminderReq(Users, PathCreates, ReminderIds, {TRUE})
    \/ CheckThresholdFindManyReq(Users, CategoryIds, {MaxAmount}, {TRUE}, Serial)
    \/ CheckThresholdCreateAlertReq({TRUE})
    \/ ValidateDatabaseConnectionConnectReq({TRUE})
    \/ ValidateDatabaseConnectionQueryReq({TRUE})
    \/ StartServer
    \/ IntervalTickReq(Serial)
    \/ CheckTransactionRemindersFindManyReq({TRUE})
    \/ CheckTransactionRemindersCreateAlertReq({TRUE})
    \/ CheckGeneralRemindersFindManyReq({TRUE})
    \/ CheckGeneralRemindersCreateAlertReq({TRUE})
    \/ AdvanceClock

SpecPaths == Init /\ [][NextPaths]_vars

\* The alerts table: the rows the two evaluation paths write next to the
\* rows and the changes of the alert requests.
NextAlerts ==
    \/ CreateReminderReq({"u1"}, PathCreates, ReminderIds, {TRUE})
    \/ CheckThresholdFindManyReq({"u1"}, {"c1"}, {MaxAmount}, {TRUE}, Serial)
    \/ CheckThresholdCreateAlertReq({TRUE})
    \/ ValidateDatabaseConnectionConnectReq({TRUE})
    \/ ValidateDatabaseConnectionQueryReq({TRUE})
    \/ StartServer
    \/ IntervalTickReq(Serial)
    \/ CheckTransactionRemindersFindManyReq({TRUE})
    \/ CheckTransactionRemindersCreateAlertReq({TRUE})
    \/ CheckGeneralRemindersFindManyReq({TRUE})
    \/ CheckGeneralRemindersCreateAlertReq({TRUE})
    \/ CreateAlertReq({"u1"}, AlertCreates, {TRUE})
    \/ MarkAsReadFindFirstReq({"u1"}, {TRUE}, Serial)
    \/ MarkAsReadUpdateReq({TRUE})
    \/ DeleteAlertFindFirstReq({"u1"}, {TRUE}, Serial)
    \/ DeleteAlertDeleteReq({TRUE})

SpecAlerts == Init /\ [][NextAlerts]_vars

----------------------------------------------------------------------------
(* Properties                                                              *)

IsRequest(op) == lastCall.op = op

\* The call that settled last is an updateReminder that got as far as the
\* validation of reminderType: findFirst answered and found the reminder.
UpdateReachedValidation ==
    /\ IsRequest("updateReminder")
    /\ lastCall.dbOk
    /\ ~(lastCall.step = "findFirst" /\ ~lastCall.found)

\* reminderType values that are neither in the accepted set nor the legacy
\* tag.
Unaccepted == RawTypes \ {"GENERAL", "TRANSACTION", "THRESHOLD", "BUDGET_ALERT"}

\* C4: a create or update whose reminderType is not accepted fails with the
\* BadRequestError (400) that names the value and the accepted set.
C4_InvalidTypeIsBadRequest ==
    ((IsRequest("createReminder") \/ UpdateReachedValidation)
        /\ lastCall.rawType \in Unaccepted \ {""}) =>
        lastCall.error = BadRequestError(InvalidTypeMessage(lastCall.rawType))

\* C5: createReminder rejects every supplied reminderType outside the four
\* accepted spellings, the empty string and case variants included, and
\* stores nothing.
C5_CreateRejectsUnaccepted ==
    (IsRequest("createReminder") /\ lastCall.rawType \in Unaccepted) =>
        /\ lastCall.error # NoError
        /\ lastCall.id = 0

\* C6: with a working store, createReminder accepts reminderType
\* BUDGET_ALERT and stores a THRESHOLD reminder; updateReminder of a
\* reminder of the caller does not reject it at the validation, and when its
\* write finds the row still stored the call succeeds and the row is a
\* THRESHOLD reminder.
C6_LegacyTagStoredAsThreshold ==
    [][ (lastCall'.op \in {"createReminder", "updateReminder"}
            /\ lastCall'.dbOk
            /\ lastCall'.rawType = "BUDGET_ALERT")
        => \/ /\ lastCall'.error = NoError
              /\ lastCall'.id \in DOMAIN reminders'
              /\ reminders'[lastCall'.id].reminderType = "THRESHOLD"
           \/ /\ lastCall'.op = "updateReminder"
              /\ ~lastCall'.found
              /\ lastCall'.error # NoError
              /\ reminders' = reminders ]_vars

\* An update with BUDGET_ALERT went through and the row is a THRESHOLD one.
C6_Witness ==
    /\ IsRequest("updateReminder")
    /\ lastCall.step = "update"
    /\ lastCall.rawType = "BUDGET_ALERT"
    /\ lastCall.error = NoError
    /\ reminders[lastCall.id].reminderType = "THRESHOLD"

\* C7: with a working store, createReminder without reminderType stores a
\* GENERAL reminder that is not completed.
C7_DefaultGeneralActive ==
    [][ (lastCall'.op = "createReminder" /\ lastCall'.dbOk
            /\ lastCall'.rawType = UNDEFINED /\ lastCall' # lastCall)
        => /\ lastCall'.error = NoError
           /\ lastCall'.id \notin DOMAIN reminders
           /\ lastCall'.id \in DOMAIN reminders'
           /\ reminders'[lastCall'.id].reminderType = "GENERAL"
           /\ reminders'[lastCall'.id].completed = FALSE ]_vars

C7_Witness ==
    /\ IsRequest("createReminder")
    /\ lastCall.rawType = UNDEFINED
    /\ lastCall.error = NoError
    /\ lastCall.id \in DOMAIN reminders
    /\ reminders[lastCall.id].reminderType = "GENERAL"
    /\ reminders[lastCall.id].completed = FALSE

\* C16: with a working store, updateReminder with { completed: true } whose
\* write finds the reminder stored and already completed succeeds and
\* changes no field of any reminder.
C16_CompletionIdempotent ==
    [][ (/\ lastCall'.op = "updateReminder"
         /\ lastCall'.step = "update"
         /\ lastCall'.data = [completed |-> TRUE]
         /\ lastCall'.dbOk
         /\ lastCall'.found
         /\ lastCall'.wasCompleted)
            => /\ lastCall'.error = NoError
               /\ reminders' = reminders ]_vars

\* The second completion: the reminder was completed before the write, the
\* call succeeded, the reminder is completed.
C16_Witness ==
    /\ IsRequest("updateReminder")
    /\ lastCall.step = "update"
    /\ lastCall.data = [completed |-> TRUE]
    /\ lastCall.wasCompleted
    /\ lastCall.error = NoError
    /\ lastCall.id \in DOMAIN reminders
    /\ reminders[lastCall.id].completed

\* The stored reminder types.
StoredTypes == {"GENERAL", "TRANSACTION", "THRESHOLD"}

\* C21: a createReminder followed, as the next call to settle, by an
\* updateReminder of a reminder of the caller with the same reminderType
\* value in the payload, both with a working store and the row still stored:
\* both are rejected, or both are accepted and store the same type; an
\* update without reminderType leaves the stored type alone.
C21_SameValidationOnUpdate ==
    [][ /\ (/\ lastCall.op = "createReminder"
             /\ lastCall.dbOk
             /\ lastCall.rawType # UNDEFINED
             /\ lastCall'.op = "updateReminder"
             /\ lastCall'.dbOk
             /\ lastCall'.found
             /\ lastCall'.rawType = lastCall.rawType)
                => /\ (lastCall.error = NoError) <=> (lastCall'.error = NoError)
                   /\ (lastCall.error = NoError /\ lastCall'.error = NoError)
                        => reminders'[lastCall'.id].reminderType
                                = MapLegacy(lastCall.rawType)
        /\ (lastCall'.op = "updateReminder" /\ lastCall'.rawType = UNDEFINED)
                => \A id \in DOMAIN reminders \cap DOMAIN reminders' :
                        reminders'[id].reminderType = reminders[id].reminderType ]_vars

\* C22: every stored reminder has one of the three stored types.
C22_StoredTypeClosed ==
    \A id \in DOMAIN reminders : reminders[id].reminderType \in StoredTypes

\* An update with a value outside the accepted spellings was refused and
\* the stored type is still one of the three.
C22_Witness ==
    /\ IsRequest("updateReminder")
    /\ lastCall.rawType \in Unaccepted
    /\ lastCall.dbOk
    /\ lastCall.found
    /\ lastCall.error # NoError
    /\ lastCall.id \in DOMAIN reminders
    /\ reminders[lastCall.id].reminderType \in StoredTypes

\* C24: a reminder goes from completed to not completed only in a step of
\* toggleReminder.
C24_OnlyToggleReactivates ==
    [][ \A id \in DOMAIN reminders \cap DOMAIN reminders' :
            (reminders[id].completed /\ ~reminders'[id].completed)
                => lastCall'.op = "toggleReminder" ]_vars

\* C28: a run of createReminder or updateReminder that ends in an error
\* changes no reminder and adds none, whatever else its payload carried.
C28_RejectedWriteChangesNothing ==
    [][ (lastCall'.op \in {"createReminder", "updateReminder"}
            /\ lastCall'.error # NoError)
                => /\ reminders' = reminders
                   /\ nextReminderId' = nextReminderId ]_vars

\* An update carrying an unaccepted reminderType together with
\* completed: true was refused, and the reminder is still not completed.
C28_Witness ==
    /\ IsRequest("updateReminder")
    /\ lastCall.dbOk
    /\ lastCall.found
    /\ lastCall.rawType \in Unaccepted
    /\ Has(lastCall.data, "completed")
    /\ lastCall.data.completed
    /\ lastCall.error # NoError
    /\ ~lastCall.wasCompleted
    /\ lastCall.id \in DOMAIN reminders
    /\ ~reminders[lastCall.id].completed


\* C19: with a working store, getReminderById, updateReminder,
\* toggleReminder and deleteReminder whose lookup finds no reminder of the
\* caller under the id (none stored, or one stored for another user) fail
\* with NotFoundError and change no reminder.
C19_ForeignIdIsNotFound ==
    [][ (/\ lastCall' # lastCall
         /\ lastCall'.op \in {"getReminderById", "updateReminder",
                               "toggleReminder", "deleteReminder"}
         /\ lastCall'.step = "findFirst"
         /\ lastCall'.dbOk
         /\ ~lastCall'.found)
            => /\ lastCall'.error = NotFoundError(<<"Reminder not found">>)
               /\ reminders' = reminders ]_vars

\* A delete by a user who is not the owner of the stored reminder was
\* answered NotFoundError and the reminder is still there.
C19_Witness ==
    /\ IsRequest("deleteReminder")
    /\ lastCall.step = "findFirst"
    /\ lastCall.dbOk
    /\ lastCall.id \in DOMAIN reminders
    /\ reminders[lastCall.id].userId # lastCall.userId
    /\ lastCall.error = NotFoundError(<<"Reminder not found">>)

\* C20: with a working store, createReminder, and updateReminder whose
\* write finds the reminder stored, given a categoryId that references no
\* category fail with NotFoundError.
C20_UnknownCategoryIsNotFound ==
    (/\ \/ IsRequest("createReminder")
        \/ (IsRequest("updateReminder") /\ lastCall.step = "update" /\ lastCall.found)
     /\ lastCall.dbOk
     /\ Has(lastCall.data, "categoryId")
     /\ lastCall.data.categoryId \notin DOMAIN categories \cup {NULL})
        => lastCall.error.name = "NotFoundError"

\* C29: no toggle is lost.  Every toggleReminder call that succeeds inverts
\* the completed value stored at the moment its write lands, so that two
\* calls, interleaved or not, leave the value two calls in a row leave.
C29_NoLostToggle ==
    [][ (/\ Len(calls') < Len(calls)
         /\ lastCall'.op = "toggleReminder"
         /\ lastCall'.error = NoError)
            => reminders'[lastCall'.id].completed = ~reminders[lastCall'.id].completed ]_vars

\* The last threshold check wrote a WARNING alert for reminder id.
ThresholdAlerted(id) ==
    \E k \in DOMAIN lastCall.triggered :
        /\ lastCall.triggered[k] = id
        /\ \E n \in DOMAIN alerts :
            /\ alerts[n].id = lastCall.written[k]
            /\ alerts[n].reminderId = id
            /\ alerts[n].type = "WARNING"
            /\ alerts[n].userId = lastCall.userId

\* Row r, as the last threshold check read it, is an active THRESHOLD
\* reminder of the user of the check, watching its category, with a
\* threshold.
Watches(r) ==
    /\ r.reminderType = "THRESHOLD"
    /\ r.completed = FALSE
    /\ r.userId = lastCall.userId
    /\ r.categoryId = lastCall.categoryId
    /\ r.thresholdAmount # NoDecimal

\* C1: after checkThresholdReminders(u, c, A) with a working store, a
\* reminder that the check read as an active THRESHOLD reminder of u
\* watching c with threshold T has an alert from that call if and only if
\* A >= T.
C1_ThresholdInclusive ==
    (IsRequest("checkThresholdReminders") /\ lastCall.fault = "none") =>
        \A id \in DOMAIN lastCall.seen :
            Watches(lastCall.seen[id]) =>
                (ThresholdAlerted(id)
                    <=> lastCall.amount >= Number(lastCall.seen[id].thresholdAmount))

\* The boundary: the amount equals the threshold and the alert is there.
C1_Witness ==
    /\ IsRequest("checkThresholdReminders")
    /\ lastCall.fault = "none"
    /\ \E id \in DOMAIN lastCall.seen :
        /\ Watches(lastCall.seen[id])
        /\ lastCall.amount = Number(lastCall.seen[id].thresholdAmount)
        /\ ThresholdAlerted(id)

\* Row r has no category or no threshold.
MissingFields(r) == r.categoryId = NULL \/ r.thresholdAmount = NoDecimal

\* C2: whatever creates, updates, category deletions and checks came
\* before, a threshold check fetches and alerts no reminder that it read
\* with a null categoryId or a null thresholdAmount, and it returns normally.
C2_MissingFieldsNeverTrigger ==
    /\ \A i \in DOMAIN calls :
        calls[i].op = "checkThresholdReminders" =>
            \A k \in DOMAIN calls[i].rows :
                ~MissingFields(calls[i].rows[k].row)
    /\ IsRequest("checkThresholdReminders") =>
        /\ lastCall.error = NoError
        /\ \A k \in DOMAIN lastCall.triggered :
            ~MissingFields(lastCall.seen[lastCall.triggered[k]])

\* A check of the owner with an amount at or over the threshold read an
\* active THRESHOLD reminder that has lost its category, and wrote nothing.
C2_Witness ==
    /\ IsRequest("checkThresholdReminders")
    /\ lastCall.fault = "none"
    /\ lastCall.triggered = <<>>
    /\ \E id \in DOMAIN lastCall.seen :
        LET r == lastCall.seen[id]
        IN  /\ r.reminderType = "THRESHOLD"
            /\ r.completed = FALSE
            /\ r.userId = lastCall.userId
            /\ r.categoryId = NULL
            /\ r.thresholdAmount # NoDecimal
            /\ lastCall.amount >= Number(r.thresholdAmount)

\* The transaction written or updated by the last call.
WrittenTransaction == transactions[lastCall.id]

\* Reminder id is an active THRESHOLD reminder of the owner of the written
\* transaction, on its category, whose threshold the amount reaches.
QualifiesFor(id, tx) ==
    LET r == reminders[id]
    IN  /\ r.reminderType = "THRESHOLD"
        /\ r.completed = FALSE
        /\ r.userId = tx.userId
        /\ r.categoryId = tx.categoryId
        /\ r.thresholdAmount # NoDecimal
        /\ Number(tx.amount) >= Number(r.thresholdAmount)

\* The alerts table holds a WARNING alert of reminder id for this amount,
\* naming the amount.
WarningFor(id, tx) ==
    \E i \in DOMAIN alerts :
        /\ alerts[i].reminderId = id
        /\ alerts[i].type = "WARNING"
        /\ alerts[i].userId = tx.userId
        /\ Includes(alerts[i].message, ToString(Number(tx.amount)))

\* A threshold check for this transaction has been called and has not
\* returned yet.
EvaluationInFlight(tx) ==
    \E i \in DOMAIN calls :
        /\ calls[i].op = "checkThresholdReminders"
        /\ calls[i].userId = tx.userId
        /\ calls[i].categoryId = tx.categoryId
        /\ calls[i].amount = Number(tx.amount)

\* C3: once createTransaction or updateTransaction has persisted an EXPENSE,
\* every active THRESHOLD reminder of that user and category whose threshold
\* the amount reaches has its WARNING alert, or the evaluation that will
\* write it is under way.
C3_ExpenseWriteEvaluates ==
    (/\ lastCall.op \in {"createTransaction", "updateTransaction"}
     /\ lastCall.step \in {"create", "update"}
     /\ lastCall.error = NoError
     /\ lastCall.id \in DOMAIN transactions
     /\ WrittenTransaction.type = "EXPENSE") =>
        \A id \in DOMAIN reminders :
            QualifiesFor(id, WrittenTransaction) =>
                WarningFor(id, WrittenTransaction) \/ EvaluationInFlight(WrittenTransaction)

\* The sweeps of an evaluation, each with what it read and what it did.
SweepsOf(call) ==
    { [ reminderType |-> "TRANSACTION", fault |-> call.txFault, seen |-> call.txSeen,
        triggered |-> call.txTriggered, written |-> call.txWritten ],
      [ reminderType |-> "GENERAL", fault |-> call.genFault, seen |-> call.genSeen,
        triggered |-> call.genTriggered, written |-> call.genWritten ] }

\* Sweep s called createAlert for reminder id and it resolved.
SweepAlerted(s, id) == \E k \in DOMAIN s.triggered : s.triggered[k] = id

\* The alert sweep s wrote for reminder id is in the table: an INFO alert of
\* the owner of the reminder.
SweepWritten(s, id) ==
    \E k \in DOMAIN s.triggered :
        /\ s.triggered[k] = id
        /\ \E n \in DOMAIN alerts :
            /\ alerts[n].id = s.written[k]
            /\ alerts[n].reminderId = id
            /\ alerts[n].type = "INFO"
            /\ alerts[n].userId = s.seen[id].userId

\* Row r, as sweep s read it, is an active reminder of the type it sweeps.
Swept(s, r) == r.reminderType = s.reminderType /\ r.completed = FALSE

\* C8: after a sweep called at instant `at` whose writes went through, a
\* reminder it read as an active reminder of its type due on an earlier
\* calendar day, or due today at or before `at`, has its alert; no reminder
\* due on a later calendar day has one.
C8_DueDateBoundary ==
    IsRequest("checkAllReminders") =>
        \A s \in SweepsOf(lastCall) : \A id \in DOMAIN s.seen :
            LET due == s.seen[id].dueDate
            IN  /\ (s.fault = "none" /\ Swept(s, s.seen[id])
                        /\ DateString(due) < DateString(lastCall.at))
                    => (SweepAlerted(s, id) /\ SweepWritten(s, id))
                /\ (s.fault = "none" /\ Swept(s, s.seen[id])
                        /\ DateString(due) = DateString(lastCall.at)
                        /\ due <= lastCall.at)
                    => (SweepAlerted(s, id) /\ SweepWritten(s, id))
                /\ DateString(due) > DateString(lastCall.at)
                    => ~SweepAlerted(s, id)

\* The sweep was called at the second instant of a day ("today 10:00") and
\* alerted a reminder due at the last instant of the day before
\* ("yesterday 23:59").
C8_Witness ==
    /\ IsRequest("checkAllReminders")
    /\ lastCall.at = DayLen + 1
    /\ \E s \in SweepsOf(lastCall) : \E id \in DOMAIN s.seen :
        /\ Swept(s, s.seen[id])
        /\ s.seen[id].dueDate = DayLen - 1
        /\ SweepAlerted(s, id)
        /\ SweepWritten(s, id)

\* C9: a sweep alerts every active reminder of its type whose dueDate is on
\* the calendar day of the sweep, whatever its time of day.
C9_DueTodayByCalendarDate ==
    IsRequest("checkAllReminders") =>
        \A s \in SweepsOf(lastCall) : \A id \in DOMAIN s.seen :
            (/\ s.fault = "none"
             /\ Swept(s, s.seen[id])
             /\ DateString(s.seen[id].dueDate) = DateString(lastCall.at))
                => SweepAlerted(s, id)

\* C10: the startup evaluation and the interval evaluations together write
\* at most one alert for a reminder that nothing modifies.
C10_NoDuplicateAcrossSweeps ==
    \A id \in DOMAIN reminders :
        Cardinality({n \in DOMAIN alerts : alerts[n].reminderId = id}) <= 1

\* The evaluation that has just settled ran both sweeps over everything
\* due: each sweep alerted every reminder it read as active, of its type and
\* with dueDate at or before the instant of the call.
FullEvaluation ==
    \A s \in SweepsOf(lastCall) :
        /\ s.fault = "none"
        /\ \A id \in DOMAIN s.seen :
            (Swept(s, s.seen[id]) /\ s.seen[id].dueDate <= lastCall.at)
                => SweepAlerted(s, id)

\* The evaluation called in this step.
Called == passes'[Len(passes')]

\* C30: the callback of listen calls one evaluation, marked as the startup
\* run, in the step that starts the scheduler; an interval evaluation is
\* called only once the scheduler is running, that is after the startup
\* run; every evaluation called starts both sweeps at the instant of the
\* call, and when it settles it has run both over everything due.
C30_StartupThenEveryTick ==
    [][ /\ (scheduler # "running" /\ scheduler' = "running")
            => /\ Len(passes') = Len(passes) + 1
               /\ Called.from = "startup"
        /\ Len(passes') > Len(passes)
            => /\ Called.at = now
               /\ Called.tx.stage = "query"
               /\ Called.gen.stage = "query"
               /\ Called.from = "startup" => scheduler = "listening"
               /\ Called.from = "interval" => scheduler = "running"
        /\ (lastCall' # lastCall /\ lastCall'.op = "checkAllReminders")
            => FullEvaluation' ]_vars

\* An interval evaluation, called later than the startup run, alerted a due
\* reminder.
C30_Witness ==
    /\ IsRequest("checkAllReminders")
    /\ lastCall.from = "interval"
    /\ lastCall.at > 0
    /\ scheduler = "running"
    /\ Len(lastCall.txTriggered) + Len(lastCall.genTriggered) > 0
    /\ FullEvaluation

\* The reminders the last threshold check had to alert: those it read as
\* active THRESHOLD reminders of its user on its category whose threshold
\* the amount reaches.
ThresholdDue ==
    {id \in DOMAIN lastCall.seen :
        /\ Watches(lastCall.seen[id])
        /\ lastCall.amount >= Number(lastCall.seen[id].thresholdAmount)}

\* The reminders sweep s of the last evaluation had to alert.
SweepDue(s) ==
    {id \in DOMAIN s.seen :
        Swept(s, s.seen[id]) /\ s.seen[id].dueDate <= lastCall.at}

\* C11: when one alert write fails during a pass, every other reminder the
\* pass fetched whose condition holds still gets its alert: at most the one
\* reminder whose write failed is left without.
C11_FailureIsolated ==
    /\ (IsRequest("checkThresholdReminders") /\ lastCall.fault = "alert")
            => Len(lastCall.triggered) >= Cardinality(ThresholdDue) - 1
    /\ IsRequest("checkAllReminders") =>
            \A s \in SweepsOf(lastCall) :
                s.fault = "alert" => Len(s.triggered) >= Cardinality(SweepDue(s)) - 1

\* C13: checkThresholdReminders and checkAllReminders (both sweeps) return
\* normally whether the reminder query or an alert write failed.
C13_EvaluationNeverThrows ==
    (IsRequest("checkThresholdReminders") \/ IsRequest("checkAllReminders"))
        => lastCall.error = NoError

\* The first alert write of the GENERAL sweep failed next to a due reminder,
\* nothing was written for it, and the evaluation returned normally.
C13_Witness ==
    /\ IsRequest("checkAllReminders")
    /\ lastCall.genFault = "alert"
    /\ \E s \in SweepsOf(lastCall) : s.reminderType = "GENERAL" /\ SweepDue(s) # {}
    /\ lastCall.genTriggered = <<>>
    /\ lastCall.error = NoError

\* C18: a threshold check with a working store writes exactly one alert per
\* reminder it read as an active THRESHOLD reminder of that user and
\* category whose threshold is at most the amount, and no other alert.
C18_FanOut ==
    (IsRequest("checkThresholdReminders") /\ lastCall.fault = "none") =>
        /\ Len(lastCall.triggered) = Cardinality(ThresholdDue)
        /\ Len(lastCall.written) = Cardinality(ThresholdDue)
        /\ Cardinality(Range(lastCall.written)) = Cardinality(ThresholdDue)
        /\ \A id \in ThresholdDue : ThresholdAlerted(id)

\* Two reminders watch the category with the lowest and the highest
\* threshold, the amount lies strictly between, and the check wrote one
\* alert, for the lower one.
C18_Witness ==
    /\ IsRequest("checkThresholdReminders")
    /\ lastCall.fault = "none"
    /\ lastCall.amount > 1
    /\ lastCall.amount < MaxAmount
    /\ \E lo, hi \in DOMAIN lastCall.seen :
        /\ Watches(lastCall.seen[lo]) /\ Number(lastCall.seen[lo].thresholdAmount) = 1
        /\ Watches(lastCall.seen[hi])
        /\ Number(lastCall.seen[hi].thresholdAmount) = MaxAmount
        /\ lastCall.triggered = <<lo>>
        /\ ThresholdAlerted(lo)

\* C23: a step of checkThresholdReminders or of checkAllReminders (a call,
\* a query that settles, an alert write that settles) changes no stored
\* reminder, whether it wrote alerts or not.
C23_EvaluationChangesNoReminder ==
    [][ (\/ passes' # passes
         \/ calls' # calls
         \/ alerts' # alerts
         \/ /\ lastCall' # lastCall
            /\ lastCall'.op \in {"checkThresholdReminders", "checkAllReminders"})
            => /\ reminders' = reminders
               /\ nextReminderId' = nextReminderId ]_vars

\* The same THRESHOLD reminder fired on two qualifying calls: the last
\* check alerted it, the table already held an alert of it, and it is
\* still active.
C23_Witness ==
    /\ IsRequest("checkThresholdReminders")
    /\ Len(alerts) = 2
    /\ Len(lastCall.triggered) = 1
    /\ alerts[1].reminderId = alerts[2].reminderId
    /\ alerts[1].type = "WARNING"
    /\ alerts[2].type = "WARNING"
    /\ alerts[2].reminderId = lastCall.triggered[1]
    /\ reminders[lastCall.triggered[1]].completed = FALSE

\* Reminder id is stored, active, of a type the sweeps cover, and due at
\* instant t.
DueActive(id, t) ==
    /\ id \in DOMAIN reminders
    /\ reminders[id].reminderType \in {"GENERAL", "TRANSACTION"}
    /\ reminders[id].completed = FALSE
    /\ reminders[id].dueDate <= t

\* The reminders that were due at the evaluation `call` and that it left
\* without an alert because the sweep of their type met a failing store.
MissedBy(call) ==
    IF call.op # "checkAllReminders" THEN {}
    ELSE {id \in DOMAIN reminders :
            /\ DueActive(id, call.at)
            /\ \E s \in SweepsOf(call) :
                /\ s.reminderType = reminders[id].reminderType
                /\ s.fault # "none"
                /\ ~SweepAlerted(s, id)}

\* The alerts table of the model is bounded: it has room for an evaluation
\* that alerts every stored reminder.
HasRoom == Len(alerts) + Cardinality(DOMAIN reminders) <= MaxAlerts

\* Reminder id has an alert among the rows after the first n.
AlertedAfter(id, n) ==
    \E i \in (n + 1)..Len(alerts) : alerts[i].reminderId = id

\* C14: a due, active reminder that an evaluation left without an alert
\* because the store failed is, as long as it stays due and active, fetched
\* again by a later tick, and an alert for it is eventually recorded, as
\* long as the bounded alerts table has room.  (n is the size of the alerts
\* table at the miss.)
C14_MissedIsRetried ==
    \A id \in ReminderIds : \A n \in 0..(MaxAlerts - MaxReminders) :
        (id \in MissedBy(lastCall) /\ scheduler = "running" /\ Len(alerts) = n)
            ~> (\/ AlertedAfter(id, n)
                \/ ~DueActive(id, now)
                \/ ~HasRoom)

\* A miss and its retry.  The last evaluation to settle had fetched a due,
\* active reminder and left it without an alert because createAlert was
\* rejected; no call has settled since.  The evaluation now in flight was
\* called by the timer: SpecRetry lets the timer call an evaluation only
\* when none is in flight, so it was called after the miss.  Its sweep of
\* the reminder's type has fetched the reminder again and its alert, the
\* only one, is in the table; its other sweep has not returned yet.
C14_Witness ==
    /\ Len(passes) = 1
    /\ passes[1].from = "interval"
    /\ Len(alerts) = 1
    /\ \E id \in MissedBy(lastCall) :
        /\ \E s \in SweepsOf(lastCall) :
            /\ s.fault = "alert"
            /\ id \in DOMAIN s.seen
            /\ Swept(s, s.seen[id])
            /\ s.seen[id].dueDate <= lastCall.at
            /\ ~SweepAlerted(s, id)
        /\ \E side \in Sides :
            LET retry == passes[1][side]
            IN  /\ SweptType(side) = reminders[id].reminderType
                /\ retry.fault = "none"
                /\ id \in DOMAIN retry.seen
                /\ \E k \in DOMAIN retry.triggered :
                    /\ retry.triggered[k] = id
                    /\ alerts[1].id = retry.written[k]
                    /\ alerts[1].reminderId = id
                    /\ alerts[1].type = "INFO"

\* C12: no two sweeps of the same type are in flight at once.
C12_NoOverlap ==
    \A i, j \in DOMAIN passes : \A side \in Sides :
        i # j => (passes[i][side].stage = "done" \/ passes[j][side].stage = "done")

\* C15: whenever an alert is written for a reminder, that reminder is
\* stored and not completed at that moment.
C15_CompletedIsInert ==
    [][ \A n \in (Len(alerts) + 1)..Len(alerts') :
            /\ alerts'[n].reminderId \in DOMAIN reminders
            /\ reminders[alerts'[n].reminderId].completed = FALSE ]_vars

\* C17: after a signal the process exits only when no evaluation is in
\* flight, and once the signal has arrived no new evaluation is called.
C17_GracefulDrain ==
    [][ /\ (shutdown = "disconnecting" /\ shutdown' = "exited") => passes = <<>>
        /\ shutdown # "none" => Len(passes') <= Len(passes) ]_vars

\* C25: a sweep fetches and alerts only reminders it read with the type it
\* sweeps, never a THRESHOLD reminder, however long it is past due; a
\* threshold check fetches and alerts only reminders it read as THRESHOLD
\* reminders, never a GENERAL or TRANSACTION one, category and threshold
\* set or not.
C25_PathsSeparatedByType ==
    /\ \A i \in DOMAIN passes : \A side \in Sides :
        \A k \in DOMAIN passes[i][side].rows :
            passes[i][side].rows[k].row.reminderType = SweptType(side)
    /\ \A i \in DOMAIN calls :
        calls[i].op = "checkThresholdReminders" =>
            \A k \in DOMAIN calls[i].rows :
                calls[i].rows[k].row.reminderType = "THRESHOLD"
    /\ IsRequest("checkAllReminders") =>
        \A s \in SweepsOf(lastCall) : \A k \in DOMAIN s.triggered :
            s.seen[s.triggered[k]].reminderType = s.reminderType
    /\ IsRequest("checkThresholdReminders") =>
        \A k \in DOMAIN lastCall.triggered :
            lastCall.seen[lastCall.triggered[k]].reminderType = "THRESHOLD"
    /\ \A n \in DOMAIN alerts :
        (alerts[n].reminderId \in DOMAIN reminders /\ alerts[n].type = "INFO")
            => reminders[alerts[n].reminderId].reminderType # "THRESHOLD"
    /\ \A n \in DOMAIN alerts :
        (alerts[n].reminderId \in DOMAIN reminders /\ alerts[n].type = "WARNING")
            => reminders[alerts[n].reminderId].reminderType = "THRESHOLD"

\* An evaluation that was called a day or more after the due date of an
\* active THRESHOLD reminder read it and wrote nothing.
C25_Witness ==
    /\ IsRequest("checkAllReminders")
    /\ lastCall.at >= DayLen
    /\ lastCall.txTriggered = <<>>
    /\ lastCall.genTriggered = <<>>
    /\ \E id \in DOMAIN lastCall.txSeen \cap DOMAIN lastCall.genSeen :
        /\ lastCall.txSeen[id].reminderType = "THRESHOLD"
        /\ lastCall.txSeen[id].completed = FALSE
        /\ lastCall.txSeen[id].dueDate = 0
        /\ lastCall.genSeen[id] = lastCall.txSeen[id]

\* The rows of alerts' that this step has written.
Recorded == {n \in DOMAIN alerts' : \A m \in DOMAIN alerts : alerts[m].id # alerts'[n].id}

\* C26: an alert that a step of an evaluation records is unread, and it is
\* a WARNING alert when a threshold check wrote it and an INFO alert when a
\* sweep wrote it; no evaluation records an ERROR or a SUCCESS alert.
C26_UnreadSeverityByPath ==
    [][ \A n \in Recorded :
            alerts'[n].reminderId # 0 =>
                /\ alerts'[n].isRead = FALSE
                /\ alerts'[n].type \in {"WARNING", "INFO"}
                /\ calls' # calls => alerts'[n].type = "WARNING"
                /\ passes' # passes => alerts'[n].type = "INFO" ]_vars

\* A threshold check wrote an unread WARNING next to an ERROR alert that a
\* request had created.
C26_Witness ==
    /\ IsRequest("checkThresholdReminders")
    /\ lastCall.triggered # <<>>
    /\ \E n, m \in DOMAIN alerts :
        /\ alerts[n].id = lastCall.written[1]
        /\ alerts[n].type = "WARNING"
        /\ alerts[n].isRead = FALSE
        /\ alerts[m].type = "ERROR"
        /\ alerts[m].reminderId = 0

\* C27: a threshold check for (u, c) fetches and alerts only reminders it
\* read as reminders of u on category c, and its alerts carry userId u; every
\* alert of an evaluation carries the userId of the reminder it stands for.
C27_TenantIsolation ==
    /\ \A i \in DOMAIN calls :
        calls[i].op = "checkThresholdReminders" =>
            \A k \in DOMAIN calls[i].rows :
                /\ calls[i].rows[k].row.userId = calls[i].userId
                /\ calls[i].rows[k].row.categoryId = calls[i].categoryId
    /\ IsRequest("checkThresholdReminders") =>
        \A k \in DOMAIN lastCall.triggered :
            /\ lastCall.seen[lastCall.triggered[k]].userId = lastCall.userId
            /\ lastCall.seen[lastCall.triggered[k]].categoryId = lastCall.categoryId
            /\ \A n \in DOMAIN alerts :
                alerts[n].id = lastCall.written[k] => alerts[n].userId = lastCall.userId
    /\ \A n \in DOMAIN alerts :
        alerts[n].reminderId \in DOMAIN reminders
            => alerts[n].userId = reminders[alerts[n].reminderId].userId

\* A check for another user, on the category and over the threshold of an
\* active THRESHOLD reminder, read it and wrote nothing.
C27_Witness ==
    /\ IsRequest("checkThresholdReminders")
    /\ lastCall.fault = "none"
    /\ lastCall.triggered = <<>>
    /\ \E id \in DOMAIN lastCall.seen :
        LET r == lastCall.seen[id]
        IN  /\ r.reminderType = "THRESHOLD"
            /\ r.completed = FALSE
            /\ r.userId # lastCall.userId
            /\ r.categoryId = lastCall.categoryId
            /\ r.thresholdAmount # NoDecimal
            /\ lastCall.amount >= Number(r.thresholdAmount)
====
